---- MODULE Spec2Model ----
(***************************************************************************)
(* A model of the Boolean-graph preprocessor of SCRAM (preprocessor.cc)    *)
(* and of Formula::Validate (event.cc).                                    *)
(*                                                                         *)
(* A graph is a record: gates (a sparse map node index -> gate record),    *)
(* root, the worklists const_gates_ / null_gates_, root_sign_, the flags   *)
(* of the graph and the scratch that the traversals use.  The gates of the *)
(* map are the live gates: a gate is owned by the argument references of   *)
(* its parents (and by the graph's root pointer), so a gate that no live   *)
(* gate references is destroyed together with its own references.          *)
(*                                                                         *)
(* Containers are iterated in ascending order of the signed index.         *)
(***************************************************************************)
EXTENDS Integers, Sequences, FiniteSets, TLC

\* ------------------------------------------------------------ bounds
NumVars == 3

\* ------------------------------------------------------------ helpers
Abs(i) == IF i < 0 THEN -i ELSE i

SetMin(S) == CHOOSE x \in S : \A y \in S : x <= y

SetMax(S) == CHOOSE x \in S : \A y \in S : x >= y

RECURSIVE SortedSeq(_)
SortedSeq(S) ==
  IF S = {} THEN <<>>
  ELSE LET m == SetMin(S) IN <<m>> \o SortedSeq(S \ {m})

Range(q) == {q[i] : i \in 1..Len(q)}

Put(f, k, v) == (k :> v) @@ f

Get(f, k, d) == IF k \in DOMAIN f THEN f[k] ELSE d

EmptyMap == <<>>

Restrict(f, S) == [x \in S |-> f[x]] @@ <<>>

RECURSIVE Invoke(_, _)

\* ------------------------------------------------------------ the graph
Vars == 1..NumVars

IsVar(i) == Abs(i) \in Vars

IsConst(s, i) == Abs(i) \in DOMAIN s.consts

IsGate(s, i) == Abs(i) \in DOMAIN s.gates

NewGate(t) == [type |-> t, state |-> "normal", args |-> {}, vote |-> 0,
               module |-> FALSE]

Args(s, g) == s.gates[g].args

GateArgs(s, g) == {a \in s.gates[g].args : IsGate(s, a)}

VariableArgs(s, g) == {a \in s.gates[g].args : IsVar(a)}

ConstantArgs(s, g) == {a \in s.gates[g].args : IsConst(s, a)}

\* parents(): the live gates that hold the node as an argument.
Parents(s, n) ==
  {p \in DOMAIN s.gates : n \in s.gates[p].args \/ (-n) \in s.gates[p].args}

\* the sign of the edge parent -> node, as the code guesses it.
EdgeSign(s, p, n) == IF n \in s.gates[p].args THEN 1 ELSE -1

Fail(s, label) == [s EXCEPT !.fail = @ \cup {label}]

Check(s, cond, label) == IF cond THEN s ELSE Fail(s, label)

\* Destruction of the gates that lost their last owner: the root pointer,
\* a local shared pointer (held) or an argument reference of a live gate.
RECURSIVE Collect(_)
Collect(s) ==
  LET dom == DOMAIN s.gates
      dead == {i \in dom \ ({s.root} \cup s.held) : Parents(s, i) = {}}
  IN IF dead = {} THEN s
     ELSE Collect([s EXCEPT !.gates = Restrict(@, dom \ dead)])

Hold(s, i) == [s EXCEPT !.held = @ \cup {i}]

Release(s, i) == Collect([s EXCEPT !.held = @ \ {i}])

\* new IGate(type): sequential indices.
Alloc(s, t) ==
  [s EXCEPT !.gates = Put(s.gates, s.next, NewGate(t)), !.next = @ + 1,
            !.held = @ \cup {s.next}]

\* ------------------------------------------------------------ IGate
EraseAllArgs(s, g) == Collect([s EXCEPT !.gates[g].args = {}])

Nullify(s, g) ==
  Collect([s EXCEPT !.gates[g].state = "null", !.gates[g].args = {}])

MakeUnity(s, g) ==
  Collect([s EXCEPT !.gates[g].state = "unity", !.gates[g].args = {}])

SetType(s, g, t) == [s EXCEPT !.gates[g].type = t]

EraseArg(s, g, a) == Collect([s EXCEPT !.gates[g].args = @ \ {a}])

ProcessComplementArg(s, g) ==
  CASE s.gates[g].type \in {"and", "nor"} -> Invoke("Nullify", <<s, g>>)
    [] s.gates[g].type \in {"or", "nand", "xor"} -> Invoke("MakeUnity", <<s, g>>)
    [] OTHER -> Fail(s, "AddArg:complement")

AddArg(s, g, a) ==
  IF a \in s.gates[g].args
    THEN Check(s, s.gates[g].type \in {"and", "or", "nand", "nor"},
               "AddArg:duplicate")
  ELSE IF (-a) \in s.gates[g].args THEN Invoke("ProcessComplementArg", <<s, g>>)
  ELSE [s EXCEPT !.gates[g].args = @ \cup {a}]

ShareArg(s, from, a, to) == Invoke("AddArg", <<s, to, a>>)

TransferArg(s, from, a, to) ==
  Collect(Invoke("AddArg", <<[s EXCEPT !.gates[from].args = @ \ {a}], to, a>>))

InvertArg(s, g, a) ==
  [s EXCEPT !.gates[g].args = (@ \ {a}) \cup {-a}]

InvertArgs(s, g) ==
  [s EXCEPT !.gates[g].args = {-a : a \in @}]

AddArgs(s, g, q) ==
  IF q = <<>> \/ s.gates[g].state # "normal" THEN s
  ELSE Invoke("AddArgs", <<Invoke("AddArg", <<s, g, Head(q)>>), g, Tail(q)>>)

\* JoinGate: the positive argument gate c is dropped and its arguments are
\* added one by one (gates, then variables) until the gate collapses.
JoinGate(s, g, c) ==
  LET q == SortedSeq(GateArgs(s, c)) \o SortedSeq(VariableArgs(s, c))
      s1 == [s EXCEPT !.gates[g].args = @ \ {c}]
  IN Collect(Invoke("AddArgs", <<s1, g, q>>))

\* JoinNullGate: the reference to a NULL gate is replaced by its only
\* argument with the sign of the reference carried over.
JoinNullGate(s, g, a) ==
  LET n == Abs(a)
      arg == CHOOSE x \in s.gates[n].args : TRUE
      signed == IF a > 0 THEN arg ELSE -arg
      s1 == [s EXCEPT !.gates[g].args = @ \ {a}]
  IN Collect(Invoke("AddArg", <<s1, g, signed>>))

Clone(s, g) ==
  LET s1 == Alloc(s, s.gates[g].type)
  IN [s1 EXCEPT !.gates[s.next].args = s.gates[g].args,
                !.gates[s.next].vote = s.gates[g].vote]

\* ------------------------------------------------------------ constants
\* RemoveConstantArg without the change of the type of a one-argument gate.
RemoveConstantArgPlain(s, g, a) ==
  Invoke("EraseArg", <<Check(s, Cardinality(s.gates[g].args) > 1,
                             "RemoveConstantArg:437"), g, a>>)

RemoveConstantArg(s, g, a) ==
  LET s0 == Check(s, Cardinality(s.gates[g].args) > 1, "RemoveConstantArg:437")
      s1 == Invoke("EraseArg", <<s0, g, a>>)
      t == s1.gates[g].type
  IN IF Cardinality(s1.gates[g].args) = 1
       THEN CASE t \in {"xor", "or", "and"} -> SetType(s1, g, "null")
              [] t \in {"nor", "nand"} -> SetType(s1, g, "not")
              [] OTHER -> Fail(s1, "RemoveConstantArg:451")
       ELSE s1

ProcessTrueArg(s, g, a) ==
  LET t == s.gates[g].type
  IN CASE t \in {"null", "or"} -> Invoke("MakeUnity", <<s, g>>)
       [] t \in {"nand", "and"} -> Invoke("RemoveConstantArg", <<s, g, a>>)
       [] t \in {"nor", "not"} -> Invoke("Nullify", <<s, g>>)
       [] t = "xor" ->
            LET s0 == Check(s, Cardinality(s.gates[g].args) = 2,
                            "ProcessTrueArg:395")
            IN SetType(Invoke("EraseArg", <<s0, g, a>>), g, "not")
       [] t = "atleast" ->
            LET s0 == Check(s, Cardinality(s.gates[g].args) > 2,
                            "ProcessTrueArg:401")
                s1 == Invoke("EraseArg", <<s0, g, a>>)
                k == s.gates[g].vote - 1
                s2 == [s1 EXCEPT !.gates[g].vote = k]
            IN IF k = 1 THEN SetType(s2, g, "or") ELSE s2

\* ProcessFalseArg with the kinds grouped as for a true argument.
ProcessFalseArgByRows(s, g, a) ==
  LET t == s.gates[g].type
  IN CASE t \in {"null", "or", "xor"} -> Invoke("RemoveConstantArg", <<s, g, a>>)
       [] t \in {"nand", "and"} -> Invoke("Nullify", <<s, g>>)
       [] t \in {"nor", "not"} -> Invoke("MakeUnity", <<s, g>>)
       [] t = "atleast" ->
            LET s1 == Invoke("EraseArg", <<s, g, a>>)
            IN IF s1.gates[g].vote = Cardinality(s1.gates[g].args)
                 THEN SetType(s1, g, "and") ELSE s1

ProcessFalseArg(s, g, a) ==
  LET t == s.gates[g].type
  IN CASE t \in {"nor", "xor", "or"} -> Invoke("RemoveConstantArg", <<s, g, a>>)
       [] t \in {"null", "and"} -> Invoke("Nullify", <<s, g>>)
       [] t \in {"nand", "not"} -> Invoke("MakeUnity", <<s, g>>)
       [] t = "atleast" ->
            LET s0 == Check(s, Cardinality(s.gates[g].args) > 2,
                            "ProcessFalseArg:427")
                s1 == Invoke("EraseArg", <<s0, g, a>>)
            IN IF s1.gates[g].vote = Cardinality(s1.gates[g].args)
                 THEN SetType(s1, g, "and") ELSE s1

\* ProcessConstantArg that takes the state of the constant as it is.
ProcessConstantArgUnsigned(s, g, a, state) ==
  IF state THEN Invoke("ProcessTrueArg", <<s, g, a>>)
  ELSE Invoke("ProcessFalseArg", <<s, g, a>>)

ProcessConstantArg(s, g, a, state) ==
  LET st == IF a < 0 THEN ~state ELSE state
  IN IF st THEN Invoke("ProcessTrueArg", <<s, g, a>>) ELSE Invoke("ProcessFalseArg", <<s, g, a>>)


\* the tail of the three propagation loops: the parent that became constant
\* or a NULL gate is propagated in its turn.
PropagateParent(s, p) ==
  IF s.gates[p].state # "normal" THEN Invoke("PropagateConstGate", <<s, p>>)
  ELSE IF s.gates[p].type = "null" THEN Invoke("PropagateNullGate", <<s, p>>)
  ELSE s

PropagateConstGate(s, g) ==
  IF Parents(s, g) = {} THEN s
  ELSE LET p == SetMin(Parents(s, g))
           state == s.gates[g].state # "null"
           s1 == Invoke("ProcessConstantArg", <<s, p, EdgeSign(s, p, g) * g, state>>)
       IN Invoke("PropagateConstGate", <<Invoke("PropagateParent", <<s1, p>>), g>>)

PropagateNullGate(s, g) ==
  IF Parents(s, g) = {} THEN s
  ELSE LET p == SetMin(Parents(s, g))
           s1 == Invoke("JoinNullGate", <<s, p, EdgeSign(s, p, g) * g>>)
       IN Invoke("PropagateNullGate", <<Invoke("PropagateParent", <<s1, p>>), g>>)

PropagateConstant(s, c) ==
  IF Parents(s, c) = {} THEN s
  ELSE LET p == SetMin(Parents(s, c))
           s1 == Invoke("ProcessConstantArg", <<s, p, EdgeSign(s, p, c) * c, s.consts[c]>>)
       IN Invoke("PropagateConstant", <<Invoke("PropagateParent", <<s1, p>>), c>>)

ClearGateMarks(s) == [s EXCEPT !.marks = {}]

\* a weak pointer of a worklist has expired when its gate was destroyed.
Expired(s, g) == g \notin DOMAIN s.gates

DrainConst(s, q) ==
  IF q = <<>> THEN s
  ELSE IF Expired(s, Head(q)) THEN Invoke("DrainConst", <<s, Tail(q)>>)
  ELSE LET g == Head(q)
           was == g \in s.held
           s1 == Invoke("PropagateConstGate", <<Hold(s, g), g>>)
       IN Invoke("DrainConst", <<IF was THEN s1 ELSE Invoke("Release", <<s1, g>>), Tail(q)>>)

ClearConstGates(s) ==
  LET s1 == Invoke("DrainConst", <<ClearGateMarks(s), s.cg>>) IN [s1 EXCEPT !.cg = <<>>]

DrainNull(s, q) ==
  IF q = <<>> THEN s
  ELSE IF Expired(s, Head(q)) THEN Invoke("DrainNull", <<s, Tail(q)>>)
  ELSE LET g == Head(q)
           was == g \in s.held
           s1 == Invoke("PropagateNullGate", <<Hold(s, g), g>>)
       IN Invoke("DrainNull", <<IF was THEN s1 ELSE Invoke("Release", <<s1, g>>), Tail(q)>>)

\* ClearNullGates without the clear() of line 507.
ClearNullGatesKept(s) == Invoke("DrainNull", <<ClearGateMarks(s), s.ng>>)

ClearNullGates(s) ==
  LET s1 == Invoke("DrainNull", <<ClearGateMarks(s), s.ng>>) IN [s1 EXCEPT !.ng = <<>>]

RemoveConstantsLoop(s, q) ==
  IF q = <<>> THEN s
  ELSE IF Parents(s, Head(q)) = {} THEN Invoke("RemoveConstantsLoop", <<s, Tail(q)>>)
  ELSE LET s1 == Invoke("PropagateConstant", <<s, Head(q)>>)
       IN Invoke("RemoveConstantsLoop", <<
            Check(s1, Parents(s1, Head(q)) = {}, "RemoveConstants:346"),
            Tail(q)>>)

RemoveConstants(s) ==
  LET s0 == Check(Check(s, s.cg = <<>>, "RemoveConstants:341"),
                  s.graph_constants # <<>>, "RemoveConstants:342")
      s1 == Invoke("RemoveConstantsLoop", <<s0, s0.graph_constants>>)
  IN [Check(s1, s1.cg = <<>>, "RemoveConstants:349")
        EXCEPT !.graph_constants = <<>>]

RemoveNullGates(s) ==
  LET s0 == Check(Check(s, s.ng = <<>>, "RemoveNullGates:325"),
                  s.graph_null_gates # <<>>, "RemoveNullGates:326")
      s1 == [s0 EXCEPT !.ng = s.graph_null_gates, !.graph_null_gates = <<>>]
  IN IF Len(s1.ng) = 1 /\ s1.ng[1] = s1.root
       THEN [s1 EXCEPT !.ng = <<>>]
       ELSE Invoke("ClearNullGates", <<s1>>)

\* ------------------------------------------------------------ normalization
Mark(s, g) == [s EXCEPT !.marks = @ \cup {g}]

Unhold(s, S) == Collect([s EXCEPT !.held = @ \ S])

\* the negative types without NAND.
NegativeTypeNoNand(t) == t \in {"nor", "not"}

NegativeType(t) == t \in {"nor", "nand", "not"}

InvertArgList(s, g, q) ==
  IF q = <<>> THEN s ELSE Invoke("InvertArgList", <<InvertArg(s, g, Head(q)), g, Tail(q)>>)

NotifyArgs(s, q, neg) ==
  IF q = <<>> THEN [s |-> s, neg |-> neg]
  ELSE LET a == Head(q)
           s1 == Invoke("NotifyParentsOfNegativeGates", <<s, Abs(a)>>)
       IN Invoke("NotifyArgs", <<s1, Tail(q),
                     IF NegativeType(s1.gates[Abs(a)].type)
                       THEN Append(neg, a) ELSE neg>>)

NotifyParentsOfNegativeGates(s, g) ==
  IF g \in s.marks THEN s
  ELSE LET r == Invoke("NotifyArgs", <<Mark(s, g), SortedSeq(GateArgs(s, g)), <<>>>>)
       IN Invoke("InvertArgList", <<r.s, g, r.neg>>)

\* NormalizeXorGate without the complements in the two AND gates.
NormalizeXorGatePlain(s, g) ==
  LET q == SortedSeq(s.gates[g].args)
      one == s.next
      two == s.next + 1
      s1 == Mark(Mark(Alloc(Alloc(s, "and"), "and"), one), two)
      s2 == SetType(s1, g, "or")
      s3 == Invoke("ShareArg", <<Invoke("ShareArg", <<s2, g, q[1], one>>), g, q[1], two>>)
      s4 == Invoke("ShareArg", <<Invoke("ShareArg", <<s3, g, q[2], one>>), g, q[2], two>>)
      s5 == Invoke("AddArg", <<Invoke("AddArg", <<Invoke("EraseAllArgs", <<s4, g>>), g, one>>), g, two>>)
  IN IF Len(q) < 2 THEN s ELSE Invoke("Unhold", <<s5, {one, two}>>)

NormalizeXorGate(s, g) ==
  LET s0 == Check(s, Cardinality(s.gates[g].args) = 2, "NormalizeXorGate:601")
      q == SortedSeq(s.gates[g].args)
      one == s0.next
      two == s0.next + 1
      s1 == Mark(Mark(Alloc(Alloc(s0, "and"), "and"), one), two)
      s2 == SetType(s1, g, "or")
      s3 == InvertArg(Invoke("ShareArg", <<Invoke("ShareArg", <<s2, g, q[1], one>>), g, q[1], two>>),
                      two, q[1])
      s4 == Invoke("ShareArg", <<InvertArg(Invoke("ShareArg", <<s3, g, q[2], one>>), one, q[2]),
                     g, q[2], two>>)
      s5 == Invoke("AddArg", <<Invoke("AddArg", <<Invoke("EraseAllArgs", <<s4, g>>), g, one>>), g, two>>)
  IN IF Len(q) < 2 THEN s0 ELSE Invoke("Unhold", <<s5, {one, two}>>)

ShareArgList(s, from, q, to) ==
  IF q = <<>> THEN s
  ELSE Invoke("ShareArgList", <<Invoke("ShareArg", <<s, from, Head(q), to>>), from, Tail(q), to>>)

\* NormalizeAtleastGate that gives the first ATLEAST gate it creates the
\* vote number of the gate.
NormalizeAtleastGateSameVote(s, g) ==
  LET vote_number == s.gates[g].vote
      q == SortedSeq(s.gates[g].args)
      first_arg == s.next
      grand_arg == s.next + 1
      second_arg == s.next + 2
      s1 == Invoke("ShareArg", <<Alloc(s, "and"), g, q[1], first_arg>>)
      s2 == [Invoke("AddArg", <<Alloc(s1, "atleast"), first_arg, grand_arg>>)
               EXCEPT !.gates[grand_arg].vote = vote_number]
      s3 == [Alloc(s2, "atleast") EXCEPT !.gates[second_arg].vote = vote_number]
      s4 == Invoke("ShareArgList", <<Invoke("ShareArgList", <<s3, g, Tail(q), grand_arg>>),
                         g, Tail(q), second_arg>>)
      s5 == Mark(Mark(Mark(s4, first_arg), second_arg), grand_arg)
      s6 == Invoke("AddArg", <<Invoke("AddArg", <<Invoke("EraseAllArgs", <<SetType(s5, g, "or"), g>>), g, first_arg>>),
                   g, second_arg>>)
      s7 == Invoke("NormalizeAtleastGate", <<Invoke("NormalizeAtleastGate", <<s6, grand_arg>>),
                                 second_arg>>)
  IN IF Len(q) = vote_number THEN SetType(s, g, "and")
     ELSE IF vote_number = 1 THEN SetType(s, g, "or")
     ELSE IF q = <<>> THEN s
     ELSE Invoke("Unhold", <<s7, {first_arg, grand_arg, second_arg}>>)

NormalizeAtleastGate(s, g) ==
  LET vote_number == s.gates[g].vote
      s0 == Check(Check(Check(s, s.gates[g].type = "atleast",
                              "NormalizeAtleastGate:624"),
                        vote_number > 0, "NormalizeAtleastGate:627"),
                  Cardinality(s.gates[g].args) > 1, "NormalizeAtleastGate:628")
      q == SortedSeq(s.gates[g].args)
      first_arg == s0.next
      grand_arg == s0.next + 1
      second_arg == s0.next + 2
      s1 == Invoke("ShareArg", <<Alloc(s0, "and"), g, q[1], first_arg>>)
      s2 == [Invoke("AddArg", <<Alloc(s1, "atleast"), first_arg, grand_arg>>)
               EXCEPT !.gates[grand_arg].vote = vote_number - 1]
      s3 == [Alloc(s2, "atleast") EXCEPT !.gates[second_arg].vote = vote_number]
      s4 == Invoke("ShareArgList", <<Invoke("ShareArgList", <<s3, g, Tail(q), grand_arg>>),
                         g, Tail(q), second_arg>>)
      s5 == Mark(Mark(Mark(s4, first_arg), second_arg), grand_arg)
      s6 == Invoke("AddArg", <<Invoke("AddArg", <<Invoke("EraseAllArgs", <<SetType(s5, g, "or"), g>>), g, first_arg>>),
                   g, second_arg>>)
      s7 == Invoke("NormalizeAtleastGate", <<Invoke("NormalizeAtleastGate", <<s6, grand_arg>>),
                                 second_arg>>)
  IN IF Len(q) = vote_number THEN SetType(s0, g, "and")
     ELSE IF vote_number = 1 THEN SetType(s0, g, "or")
     ELSE IF q = <<>> THEN s0
     ELSE Invoke("Unhold", <<s7, {first_arg, grand_arg, second_arg}>>)

NormalizeArgs(s, q, full) ==
  IF q = <<>> THEN s
  ELSE Invoke("NormalizeArgs", <<Invoke("NormalizeGate", <<s, Abs(Head(q)), full>>), Tail(q), full>>)

\* the switch on the type of the gate (lines 566-597); s is the graph
\* after the arguments were normalized.
NormalizeGateType(s, g, full) ==
  LET t == s.gates[g].type
      n == Cardinality(s.gates[g].args)
  IN CASE t = "not" ->
            [SetType(Check(s, n = 1, "NormalizeGate:569"), g, "null")
               EXCEPT !.ng = Append(@, g)]
       [] t \in {"nor", "or"} ->
            SetType(Check(s, n > 1, "NormalizeGate:575"), g, "or")
       [] t \in {"nand", "and"} ->
            SetType(Check(s, n > 1, "NormalizeGate:580"), g, "and")
       [] t = "xor" ->
            IF full THEN Invoke("NormalizeXorGate", <<Check(s, n = 2, "NormalizeGate:584"),
                                          g>>)
            ELSE Check(s, n = 2, "NormalizeGate:584")
       [] t = "atleast" ->
            IF full
              THEN Invoke("NormalizeAtleastGate", <<
                     Check(Check(s, n > 2, "NormalizeGate:589"),
                           s.gates[g].vote > 1, "NormalizeGate:590"), g>>)
              ELSE Check(Check(s, n > 2, "NormalizeGate:589"),
                         s.gates[g].vote > 1, "NormalizeGate:590")
       [] t = "null" -> [s EXCEPT !.ng = Append(@, g)]

\* s holds the mark of the gate.
NormalizeGateArgs(s, g, full) ==
  Invoke("NormalizeGateType", <<Invoke("NormalizeArgs", <<s, SortedSeq(GateArgs(s, g)), full>>), g, full>>)

NormalizeGate(s, g, full) ==
  IF g \in s.marks THEN s
  ELSE Invoke("NormalizeGateArgs", <<
         Check(Check(Mark(s, g), s.gates[g].state = "normal",
                     "NormalizeGate:559"),
               s.gates[g].args # {}, "NormalizeGate:560"),
         g, full>>)

WorklistsEmpty(s) == s.cg = <<>> /\ s.ng = <<>>

NormalizeGates(s, full) ==
  LET s0 == Check(s, WorklistsEmpty(s), "NormalizeGates:511")
      root_gate == s0.root
      s1 == IF NegativeType(s0.gates[root_gate].type)
              THEN [s0 EXCEPT !.root_sign = -@] ELSE s0
      s2 == Invoke("NotifyParentsOfNegativeGates", <<ClearGateMarks(s1), root_gate>>)
      s3 == Invoke("NormalizeGate", <<ClearGateMarks(s2), root_gate, full>>)
  IN Invoke("ClearNullGates", <<Check(s3, s3.cg = <<>>, "NormalizeGates:530")>>)

\* ------------------------------------------------------------ the root
SetRoot(s, g) == Collect([s EXCEPT !.root = g])

\* CheckRootGate: r.s is the graph it leaves, r.ret what it returns.
CheckRootGate(s) ==
  LET root == s.root
      st == s.gates[root].state
  IN IF st # "normal"
       THEN [ret |-> TRUE,
             s |-> IF s.root_sign < 0
                     THEN LET new == s.next
                              s1 == Invoke("SetRoot", <<Alloc(s, "null"), new>>)
                              s2 == IF st = "null" THEN Invoke("MakeUnity", <<s1, new>>)
                                    ELSE Invoke("Nullify", <<Check(s1, st = "unity",
                                                       "CheckRootGate:299"),
                                                 new>>)
                          IN [Invoke("Unhold", <<s2, {new}>>) EXCEPT !.root_sign = 1]
                     ELSE s]
     ELSE IF s.gates[root].type = "null"
       THEN LET s0 == Check(s, Cardinality(s.gates[root].args) = 1,
                            "CheckRootGate:307")
            IN IF GateArgs(s0, root) # {}
                 THEN LET signed_index == SetMin(GateArgs(s0, root))
                          s1 == Invoke("SetRoot", <<s0, Abs(signed_index)>>)
                          s2 == Check(s1, Parents(s1, s1.root) = {},
                                      "CheckRootGate:312")
                      IN [ret |-> FALSE,
                          s |-> [s2 EXCEPT !.root_sign =
                                   @ * (IF signed_index > 0 THEN 1 ELSE -1)]]
                 ELSE LET s1 == Check(s0, Cardinality(VariableArgs(s0, root)) = 1,
                                      "CheckRootGate:315")
                          s2 == IF s1.root_sign < 0 THEN InvertArgs(s1, root)
                                ELSE s1
                      IN [ret |-> TRUE, s |-> [s2 EXCEPT !.root_sign = 1]]
     ELSE [ret |-> FALSE, s |-> s]

\* ------------------------------------------------------------ semantics
RECURSIVE EvalNode(_, _, _, _)
EvalNode(gates, consts, a, asg) ==
  LET n == Abs(a)
      v == IF n \in Vars THEN asg[n]
           ELSE IF n \in DOMAIN consts THEN consts[n]
           ELSE LET g == gates[n]
                    vals == [x \in g.args |-> EvalNode(gates, consts, x, asg)]
                    true == {x \in g.args : vals[x]}
                IN CASE g.state = "null" -> FALSE
                     [] g.state = "unity" -> TRUE
                     [] g.type = "and" -> true = g.args
                     [] g.type = "or" -> true # {}
                     [] g.type = "nand" -> true # g.args
                     [] g.type = "nor" -> true = {}
                     [] g.type = "not" -> true = {}
                     [] g.type = "null" -> true = g.args
                     [] g.type = "xor" -> Cardinality(true) % 2 = 1
                     [] g.type = "atleast" -> Cardinality(true) >= g.vote
  IN IF a < 0 THEN ~v ELSE v

Assignments == [Vars -> BOOLEAN]

EvalGraph(s, asg) == EvalNode(s.gates, s.consts, s.root, asg)

\* ------------------------------------------------------------ input graphs
Monotone(t) == t \in {"and", "or", "null", "atleast"}

\* the flags of the input contract: coherent iff no complemented argument
\* and no XOR/NOT/NAND/NOR gate; normal iff only OR, AND and NULL gates
\* (the normal form that full normalization establishes).
InputCoherent(gates) ==
  \A i \in DOMAIN gates :
    Monotone(gates[i].type) /\ \A a \in gates[i].args : a > 0

InputNormal(gates) ==
  \A i \in DOMAIN gates : gates[i].type \in {"and", "or", "null"}

MkGraph(gates, consts, root) ==
  [gates |-> gates, consts |-> consts, root |-> root,
   next |-> SetMax(DOMAIN gates \cup DOMAIN consts \cup Vars) + 1,
   cg |-> <<>>, ng |-> <<>>,
   graph_constants |-> SortedSeq(DOMAIN consts),
   graph_null_gates |->
     SortedSeq({i \in DOMAIN gates : gates[i].type = "null"}),
   root_sign |-> 1, held |-> {}, fail |-> {}, marks |-> {},
   visits |-> EmptyMap, mint |-> EmptyMap, maxt |-> EmptyMap,
   opti |-> EmptyMap, pos |-> EmptyMap, neg |-> EmptyMap,
   nfail |-> EmptyMap,
   normal |-> InputNormal(gates), coherent |-> InputCoherent(gates)]

Gt(t, args) == [type |-> t, state |-> "normal", args |-> args, vote |-> 0,
                module |-> FALSE]

Vote(k, args) == [type |-> "atleast", state |-> "normal", args |-> args,
                  vote |-> k, module |-> FALSE]

PhaseOne(s) ==
  LET s1 == IF s.graph_constants # <<>> THEN Invoke("RemoveConstants", <<s>>) ELSE s
      s2 == IF ~s1.coherent THEN Invoke("NormalizeGates", <<s1, FALSE>>) ELSE s1
  IN IF s2.graph_null_gates # <<>> THEN Invoke("RemoveNullGates", <<s2>>) ELSE s2

\* ------------------------------------------------------------ multiple definitions
ReplaceStep(s, p) ==
  IF s.gates[p].state # "normal" THEN [s EXCEPT !.cg = Append(@, p)]
  ELSE IF s.gates[p].type = "null" THEN [s EXCEPT !.ng = Append(@, p)]
  ELSE s

ReplaceLoop(s, g, replacement) ==
  IF Parents(s, g) = {} THEN s
  ELSE LET p == SetMin(Parents(s, g))
           sign == IF (-g) \in s.gates[p].args THEN -1 ELSE 1
           s1 == Invoke("AddArg", <<Invoke("EraseArg", <<s, p, sign * g>>), p, sign * replacement>>)
       IN Invoke("ReplaceLoop", <<Invoke("ReplaceStep", <<s1, p>>), g, replacement>>)

ReplaceGate(s, g, replacement) ==
  Invoke("ReplaceLoop", <<Check(s, Parents(s, g) # {}, "ReplaceGate:1955"), g, replacement>>)

\* the key of GateSet: kind, the vote number of ATLEAST, the signed arguments.
\* a key that tells every gate from every other one.
FingerprintOfIndex(s, g) == <<s.gates[g].type, g, s.gates[g].args>>

Fingerprint(s, g) ==
  <<s.gates[g].type,
    IF s.gates[g].type = "atleast" THEN s.gates[g].vote ELSE 0,
    s.gates[g].args>>

DetectMultipleArgs(r, q) ==
  IF q = <<>> THEN r
  ELSE Invoke("DetectMultipleArgs", <<Invoke("DetectMultipleDefinitions", <<r, Abs(Head(q))>>), Tail(q)>>)

\* r: the graph s, multi_def (original -> its duplicates), unique_gates.
DetectMultipleDefinitions(r, g) ==
  IF g \in r.s.marks THEN r
  ELSE
    LET s1 == Check(Mark(r.s, g), r.s.gates[g].state = "normal",
                    "DetectMultipleDefinitions:799")
        same == {u \in r.unique : Fingerprint(s1, u) = Fingerprint(s1, g)}
    IN IF ~s1.gates[g].module /\ same # {}
         THEN LET orig == CHOOSE u \in same : TRUE
              IN [r EXCEPT !.s = s1,
                           !.multi_def =
                             Put(@, orig, Append(Get(@, orig, <<>>), g))]
         ELSE Invoke("DetectMultipleArgs", <<
                [r EXCEPT !.s = s1,
                          !.unique = IF s1.gates[g].module THEN @
                                     ELSE @ \cup {g}],
                SortedSeq(GateArgs(s1, g))>>)

ReplaceDuplicates(s, dups, orig) ==
  IF dups = <<>> THEN s
  ELSE IF Expired(s, Head(dups)) THEN Invoke("ReplaceDuplicates", <<s, Tail(dups), orig>>)
  ELSE Invoke("ReplaceDuplicates", <<Invoke("ReplaceGate", <<s, Head(dups), orig>>), Tail(dups), orig>>)

ReplaceDefinitions(s, multi_def, q) ==
  IF q = <<>> THEN s
  ELSE Invoke("ReplaceDefinitions", <<Invoke("ReplaceDuplicates", <<s, multi_def[Head(q)], Head(q)>>),
                          multi_def, Tail(q)>>)

\* ProcessMultipleDefinitions that returns true whatever it found.
ProcessMultipleDefinitionsAlways(s) ==
  LET s0 == Check(s, WorklistsEmpty(s), "ProcessMultipleDefinitions:766")
      d == Invoke("DetectMultipleDefinitions", <<
             [s |-> ClearGateMarks(s0), multi_def |-> EmptyMap, unique |-> {}],
             s0.root>>)
      s1 == ClearGateMarks(d.s)
      origs == DOMAIN d.multi_def
      s2 == Invoke("ReplaceDefinitions", <<[s1 EXCEPT !.held = @ \cup origs],
                               d.multi_def, SortedSeq(origs)>>)
      s3 == Invoke("ClearNullGates", <<Invoke("ClearConstGates", <<s2>>)>>)
  IN IF origs = {} THEN [changed |-> TRUE, s |-> s1]
     ELSE [changed |-> TRUE, s |-> Invoke("Unhold", <<s3, origs>>)]

\* r.changed is the value returned, r.s the graph.
ProcessMultipleDefinitions(s) ==
  LET s0 == Check(s, WorklistsEmpty(s), "ProcessMultipleDefinitions:766")
      d == Invoke("DetectMultipleDefinitions", <<
             [s |-> ClearGateMarks(s0), multi_def |-> EmptyMap, unique |-> {}],
             s0.root>>)
      s1 == ClearGateMarks(d.s)
      origs == DOMAIN d.multi_def
      s2 == Invoke("ReplaceDefinitions", <<[s1 EXCEPT !.held = @ \cup origs],
                               d.multi_def, SortedSeq(origs)>>)
      s3 == Invoke("ClearNullGates", <<Invoke("ClearConstGates", <<s2>>)>>)
  IN IF origs = {} THEN [changed |-> FALSE, s |-> s1]
     ELSE [changed |-> TRUE, s |-> Invoke("Unhold", <<s3, origs>>)]

\* ------------------------------------------------------------ coalescence
\* the first loop of JoinGates without the test of the module flag.
JoinGatesArgsOfModules(s, g, q, common, target, to_join) ==
  IF q = <<>> THEN [s |-> s, to_join |-> to_join]
  ELSE
    LET a == Head(q)
        s1 == Invoke("JoinGates", <<s, Abs(a), common>>)
        ok == /\ target # "none"
              /\ a > 0
              /\ (common \/ Cardinality(Parents(s1, a)) <= 1)
              /\ s1.gates[a].type = target
    IN Invoke("JoinGatesArgs", <<s1, g, Tail(q), common, target,
                     IF ok THEN Append(to_join, a) ELSE to_join>>)

\* the first loop of JoinGates: r.s the graph, r.to_join the arguments.
JoinGatesArgs(s, g, q, common, target, to_join) ==
  IF q = <<>> THEN [s |-> s, to_join |-> to_join]
  ELSE
    LET a == Head(q)
        s1 == Invoke("JoinGates", <<s, Abs(a), common>>)
        ok == /\ target # "none"
              /\ a > 0
              /\ ~s1.gates[a].module
              /\ (common \/ Cardinality(Parents(s1, a)) <= 1)
              /\ s1.gates[a].type = target
    IN Invoke("JoinGatesArgs", <<s1, g, Tail(q), common, target,
                     IF ok THEN Append(to_join, a) ELSE to_join>>)

JoinLoop(s, g, q) ==
  IF q = <<>> THEN s
  ELSE LET s1 == Invoke("JoinGate", <<s, g, Head(q)>>)
       IN IF s1.gates[g].state # "normal"
            THEN [s1 EXCEPT !.cg = Append(@, g)]
            ELSE Invoke("JoinLoop", <<Check(s1, Cardinality(s1.gates[g].args) > 1,
                                "JoinGates:760"),
                          g, Tail(q)>>)

JoinGates(s, g, common) ==
  IF g \in s.marks THEN s
  ELSE
    LET t == s.gates[g].type
        n == Cardinality(s.gates[g].args)
        target == CASE t \in {"nand", "and"} -> "and"
                    [] t \in {"nor", "or"} -> "or"
                    [] OTHER -> "none"
        s0 == Check(Check(Mark(s, g), target = "none" \/ n > 1,
                          "JoinGates:724"),
                    n > 0, "JoinGates:735")
        r == Invoke("JoinGatesArgs", <<s0, g, SortedSeq(GateArgs(s0, g)), common, target,
                           <<>>>>)
        s1 == [r.s EXCEPT !.held = @ \cup Range(r.to_join)]
    IN Invoke("Unhold", <<Invoke("JoinLoop", <<s1, g, r.to_join>>), Range(r.to_join) \ s.held>>)

\* one iteration of a coalescence loop: r.changed is graph_changed.
CoalesceIteration(s, common) ==
  LET s0 == Check(s, WorklistsEmpty(s), "Coalescence:192")
      s1 == ClearGateMarks(s0)
      s2 == IF s1.gates[s1.root].state = "normal"
              THEN Invoke("JoinGates", <<s1, s1.root, common>>) ELSE s1
  IN IF s2.cg # <<>> THEN [changed |-> TRUE, s |-> Invoke("ClearConstGates", <<s2>>)]
     ELSE [changed |-> FALSE, s |-> s2]

\* ------------------------------------------------------------ complements
Dual(t) == IF t = "or" THEN "and" ELSE "or"

SwapComplements(s, g, q, complements) ==
  IF q = <<>> THEN s
  ELSE LET s1 == Invoke("AddArg", <<Invoke("EraseArg", <<s, g, Head(q)>>), g, complements[-Head(q)]>>)
       IN Invoke("SwapComplements", <<Check(s1, s1.gates[g].state = "normal",
                                "PropagateComplements:712"),
                          g, Tail(q), complements>>)

\* PropagateComplementArgs that complements every gate in place.
PropagateComplementArgsInPlace(r, q, to_swap) ==
  IF q = <<>> THEN [r |-> r, to_swap |-> to_swap]
  ELSE
    LET a == Head(q)
        n == Abs(a)
        s == r.s
        t == s.gates[n].type
        s0 == Check(s, t \in {"and", "or"}, "PropagateComplements:687")
        s2 == InvertArgs(SetType(Hold(s0, n), n, Dual(t)), n)
    IN IF a > 0
         THEN Invoke("PropagateComplementArgs", <<Invoke("PropagateComplements", <<r, n>>), Tail(q),
                                      to_swap>>)
       ELSE IF n \in DOMAIN r.complements
         THEN Invoke("PropagateComplementArgs", <<r, Tail(q), Append(to_swap, a)>>)
       ELSE Invoke("PropagateComplementArgs", <<
              Invoke("PropagateComplements", <<
                [s |-> s2, complements |-> Put(r.complements, n, n)], n>>),
              Tail(q), Append(to_swap, a)>>)

\* r: the graph s, gate_complements (index -> complement gate), to_swap.
PropagateComplementArgs(r, q, to_swap) ==
  IF q = <<>> THEN [r |-> r, to_swap |-> to_swap]
  ELSE
    LET a == Head(q)
        n == Abs(a)
        s == r.s
        t == s.gates[n].type
        s0 == Check(s, t \in {"and", "or"}, "PropagateComplements:687")
        reuse == Cardinality(Parents(s0, n)) = 1
        c == IF reuse THEN n ELSE s0.next
        s1 == IF reuse THEN Hold(s0, n) ELSE Invoke("Clone", <<s0, n>>)
        s2 == InvertArgs(SetType(s1, c, Dual(t)), c)
    IN IF a > 0
         THEN Invoke("PropagateComplementArgs", <<Invoke("PropagateComplements", <<r, n>>), Tail(q),
                                      to_swap>>)
       ELSE IF n \in DOMAIN r.complements
         THEN Invoke("PropagateComplementArgs", <<r, Tail(q), Append(to_swap, a)>>)
       ELSE Invoke("PropagateComplementArgs", <<
              Invoke("PropagateComplements", <<
                [s |-> s2, complements |-> Put(r.complements, n, c)], c>>),
              Tail(q), Append(to_swap, a)>>)

PropagateComplements(r, g) ==
  IF g \in r.s.marks THEN r
  ELSE LET x == Invoke("PropagateComplementArgs", <<[r EXCEPT !.s = Mark(r.s, g)],
                                        SortedSeq(GateArgs(r.s, g)), <<>>>>)
       IN [x.r EXCEPT !.s = Invoke("SwapComplements", <<x.r.s, g, x.to_swap,
                                            x.r.complements>>)]

\* PhaseFour without the treatment of a negative root.
PhaseFourKeepSign(s) ==
  LET s0 == Check(s, ~s.coherent, "PhaseFour:226")
      r == Invoke("PropagateComplements", <<
             [s |-> ClearGateMarks(s0), complements |-> EmptyMap], s0.root>>)
  IN Invoke("Unhold", <<r.s, {r.complements[k] : k \in DOMAIN r.complements} \ s.held>>)

PhaseFourComplements(s) ==
  LET s0 == Check(s, ~s.coherent, "PhaseFour:226")
      root == s0.root
      t == s0.gates[root].type
      s1 == IF s0.root_sign < 0
              THEN LET sa == Check(s0, t \in {"or", "and", "null"},
                                   "PhaseFour:230")
                       sb == IF t \in {"or", "and"}
                               THEN SetType(sa, root, Dual(t)) ELSE sa
                   IN [InvertArgs(sb, root) EXCEPT !.root_sign = 1]
              ELSE s0
      r == Invoke("PropagateComplements", <<
             [s |-> ClearGateMarks(s1), complements |-> EmptyMap], s1.root>>)
  IN Invoke("Unhold", <<r.s, {r.complements[k] : k \in DOMAIN r.complements} \ s.held>>)

\* ------------------------------------------------------------ module detection
ClearNodeVisits(s) == [s EXCEPT !.visits = EmptyMap]

Visits(s, n) == Get(s.visits, n, <<0, 0, 0>>)

EnterTime(s, n) == Visits(s, n)[1]

ExitTime(s, n) == Visits(s, n)[2]

LastVisit(s, n) ==
  LET v == Visits(s, n)
  IN IF v[3] # 0 THEN v[3] ELSE IF v[2] # 0 THEN v[2] ELSE v[1]

Visited(s, n) == Visits(s, n)[1] # 0

Revisited(s, n) == Visits(s, n)[3] # 0

\* Node::Visit: r.revisited is the value returned.
Visit(s, n, time) ==
  LET v == Visits(s, n)
  IN IF v[1] = 0
       THEN [s |-> [s EXCEPT !.visits = Put(@, n, <<time, 0, 0>>)],
             revisited |-> FALSE]
     ELSE IF v[2] = 0
       THEN [s |-> [s EXCEPT !.visits = Put(@, n, <<v[1], time, 0>>)],
             revisited |-> FALSE]
     ELSE [s |-> [s EXCEPT !.visits = Put(@, n, <<v[1], v[2], time>>)],
           revisited |-> TRUE]

ClearVisits(s, n) == [s EXCEPT !.visits = Put(@, n, <<0, 0, 0>>)]

MinTime(s, n) == IF IsGate(s, n) THEN Get(s.mint, n, 0) ELSE EnterTime(s, n)

MaxTime(s, n) == IF IsGate(s, n) THEN Get(s.maxt, n, 0) ELSE Invoke("LastVisit", <<s, n>>)

AssignTimingGates(s, time, q) ==
  IF q = <<>> THEN [s |-> s, time |-> time]
  ELSE LET r == Invoke("AssignTiming", <<s, time, Abs(Head(q))>>)
       IN Invoke("AssignTimingGates", <<r.s, r.time, Tail(q)>>)

AssignTimingVariables(s, time, q) ==
  IF q = <<>> THEN [s |-> s, time |-> time]
  ELSE LET v == Abs(Head(q))
           s1 == Invoke("Visit", <<Invoke("Visit", <<s, v, time + 1>>).s, v, time + 1>>).s
       IN Invoke("AssignTimingVariables", <<s1, time + 1, Tail(q)>>)

\* r.time is the value returned.
\* the gate is visited for the first time (lines 839-854).
AssignTimingArgs(s, time, g) ==
  LET r1 == Invoke("AssignTimingGates", <<s, time, SortedSeq(GateArgs(s, g))>>)
      r2 == Invoke("AssignTimingVariables", <<r1.s, r1.time,
                                  SortedSeq(VariableArgs(r1.s, g))>>)
      x == Invoke("Visit", <<r2.s, g, r2.time + 1>>)
  IN [s |-> Check(x.s, ~x.revisited, "AssignTiming:853"),
      time |-> r2.time + 1]

\* AssignTiming that does not record the later visits of a gate.
AssignTimingOnce(s, time, g) ==
  IF EnterTime(s, g) # 0 THEN [s |-> s, time |-> time + 1]
  ELSE Invoke("AssignTimingArgs", <<
         Check(Invoke("Visit", <<s, g, time + 1>>).s,
               ConstantArgs(s, g) = {}, "AssignTiming:839"),
         time + 1, g>>)

AssignTiming(s, time, g) ==
  LET v == Invoke("Visit", <<s, g, time + 1>>)
  IN IF v.revisited THEN [s |-> v.s, time |-> time + 1]
     ELSE Invoke("AssignTimingArgs", <<
            Check(v.s, ConstantArgs(v.s, g) = {}, "AssignTiming:839"),
            time + 1, g>>)

TurnModule(s, g) == [s EXCEPT !.gates[g].module = TRUE]

TransferArgList(s, from, q, to) ==
  IF q = <<>> THEN s
  ELSE Invoke("TransferArgList", <<Invoke("TransferArg", <<s, from, Head(q), to>>), from, Tail(q), to>>)

\* r.module is the new module, 0 for the empty pointer.
CreateNewModule(s, g, args) ==
  LET n == Len(args)
      t == s.gates[g].type
      m == s.next
      s1 == Mark(TurnModule(Alloc(s, IF t \in {"nand", "and"} THEN "and"
                                     ELSE "or"), m), m)
      s2 == Invoke("AddArg", <<Invoke("TransferArgList", <<s1, g, args, m>>), g, m>>)
      s3 == Check(s2, Cardinality(s2.gates[g].args) > 1, "CreateNewModule:989")
  IN IF n = 0 \/ n = 1 THEN [s |-> s, module |-> 0]
     ELSE IF n = Cardinality(s.gates[g].args)
       THEN [s |-> Check(s, s.gates[g].module, "CreateNewModule:966"),
             module |-> 0]
     ELSE IF t \notin {"nand", "and", "nor", "or"}
       THEN [s |-> Check(s, n < Cardinality(s.gates[g].args),
                         "CreateNewModule:969"), module |-> 0]
     ELSE [s |-> Invoke("Unhold", <<Check(s3, n < Cardinality(s.gates[g].args),
                              "CreateNewModule:969"), {m}>>), module |-> m]

DetectOverlap(a_min, a_max, b_min, b_max) ==
  (IF a_min > b_min THEN a_min ELSE b_min)
    <= (IF a_max < b_max THEN a_max ELSE b_max)

Overlaps(s, a, b) ==
  DetectOverlap(MinTime(s, Abs(a)), Invoke("MaxTime", <<s, Abs(a)>>),
                MinTime(s, Abs(b)), Invoke("MaxTime", <<s, Abs(b)>>))

SelectSeqBy(q, keep) ==
  LET F[i \in 0..Len(q)] ==
        IF i = 0 THEN <<>>
        ELSE IF q[i] \in keep THEN Append(F[i - 1], q[i]) ELSE F[i - 1]
  IN F[Len(q)]

\* r.modular and r.non_modular are the two vectors after the call.
FilterModularArgs(s, modular, non_modular) ==
  IF modular = <<>> \/ non_modular = <<>>
    THEN [modular |-> modular, non_modular |-> non_modular]
  ELSE LET bad == {a \in Range(modular) :
                     \E b \in Range(non_modular) : Invoke("Overlaps", <<s, a, b>>)}
           new_non_modular == SelectSeqBy(modular, bad)
           still_modular == SelectSeqBy(modular, Range(modular) \ bad)
           r == Invoke("FilterModularArgs", <<s, still_modular, new_non_modular>>)
       IN [modular |-> r.modular,
           non_modular |-> non_modular \o r.non_modular]

\* one pass over member_list; r.group, r.rest, r.low, r.high.
GrowGroup(s, group, members, low, high) ==
  LET F[i \in 0..Len(members)] ==
        IF i = 0 THEN [group |-> group, rest |-> <<>>, low |-> low,
                       high |-> high]
        ELSE LET p == F[i - 1]
                 mn == MinTime(s, Abs(members[i]))
                 mx == Invoke("MaxTime", <<s, Abs(members[i])>>)
             IN IF DetectOverlap(mn, mx, p.low, p.high)
                  THEN [group |-> Append(p.group, members[i]), rest |-> p.rest,
                        low |-> IF mn < p.low THEN mn ELSE p.low,
                        high |-> IF mx > p.high THEN mx ELSE p.high]
                  ELSE [p EXCEPT !.rest = Append(@, members[i])]
      r == F[Len(members)]
  IN IF Len(r.group) > Len(group)
       THEN Invoke("GrowGroup", <<s, r.group, r.rest, r.low, r.high>>)
       ELSE r

GroupModularArgs(s, members) ==
  IF members = <<>> THEN <<>>
  ELSE LET first == Abs(Head(members))
           r == Invoke("GrowGroup", <<s, <<Head(members)>>, Tail(members),
                          MinTime(s, first), Invoke("MaxTime", <<s, first>>)>>)
       IN <<r.group>> \o Invoke("GroupModularArgs", <<s, r.rest>>)

CreateGroupModules(s, main_arg, groups) ==
  IF groups = <<>> THEN s
  ELSE Invoke("CreateGroupModules", <<Invoke("CreateNewModule", <<s, main_arg, Head(groups)>>).s,
                          main_arg, Tail(groups)>>)

CreateNewModules(s, g, modular_args, groups) ==
  LET all == Len(modular_args) = Cardinality(s.gates[g].args)
      s0 == Check(Check(s, Len(modular_args) > 1, "CreateNewModules:1093"),
                  groups # <<>>, "CreateNewModules:1094")
      r == Invoke("CreateNewModule", <<s0, g, modular_args>>)
  IN IF modular_args = <<>> THEN s
     ELSE IF all /\ Len(groups) = 1
       THEN Check(s0, s0.gates[g].module, "CreateNewModules:1096")
     ELSE IF all
       THEN Invoke("CreateGroupModules", <<Check(s0, s0.gates[g].module,
                                     "CreateNewModules:1103"), g, groups>>)
     ELSE IF r.module = 0 THEN Fail(r.s, "CreateNewModules:1107")
     ELSE Invoke("CreateGroupModules", <<r.s, r.module, groups>>)

ProcessModularArgs(s, g, non_shared_args, modular_args, non_modular_args) ==
  LET s0 == Check(s, Cardinality(s.gates[g].args)
                       = Len(non_shared_args) + Len(modular_args)
                         + Len(non_modular_args), "ProcessModularArgs:940")
      s1 == Invoke("CreateNewModule", <<s0, g, non_shared_args>>).s
      f == Invoke("FilterModularArgs", <<s1, modular_args, non_modular_args>>)
      ranges == modular_args = <<>> \/ non_modular_args = <<>>
                \/ \A a \in Range(modular_args) \cup Range(non_modular_args) :
                     MinTime(s1, Abs(a)) < Invoke("MaxTime", <<s1, Abs(a)>>)
      s2 == Check(Check(s1, ranges, "DetectOverlap:1006"),
                  Len(f.modular) # 1, "ProcessModularArgs:952")
      groups == Invoke("GroupModularArgs", <<s2, f.modular>>)
      s3 == Check(s2, \A i \in 1..Len(groups) : Len(groups[i]) > 1,
                  "GroupModularArgs:1081")
  IN IF s.gates[g].type \in {"nor", "or", "nand", "and"}
       THEN Invoke("CreateNewModules", <<s3, g, f.modular, groups>>)
       ELSE s0

\* the classification loops of FindModules over the gate and the variable
\* arguments; c carries the three vectors and the running min/max times.
FindModulesGates(s, g, q, c) ==
  IF q = <<>> THEN [s |-> s, c |-> c]
  ELSE
    LET a == Head(q)
        n == Abs(a)
        s1 == Invoke("FindModules", <<s, n>>)
        min == MinTime(s1, n)
        max == Invoke("MaxTime", <<s1, n>>)
        inner == min > EnterTime(s1, g) /\ max < ExitTime(s1, g)
    IN IF s1.gates[n].module /\ ~Revisited(s1, n)
         THEN Invoke("FindModulesGates", <<
                Check(s1, Parents(s1, n) = {g}, "FindModules:874"), g, Tail(q),
                [c EXCEPT !.non_shared = Append(@, a)]>>)
         ELSE Invoke("FindModulesGates", <<
                Check(s1, min > 0 /\ max > min, "FindModules:884"), g, Tail(q),
                [c EXCEPT !.modular = IF inner THEN Append(@, a) ELSE @,
                          !.non_modular = IF inner THEN @ ELSE Append(@, a),
                          !.min_time = IF min < @ THEN min ELSE @,
                          !.max_time = IF max > @ THEN max ELSE @]>>)

FindModulesVariables(s, g, q, c) ==
  IF q = <<>> THEN [s |-> s, c |-> c]
  ELSE
    LET a == Head(q)
        n == Abs(a)
        min == EnterTime(s, n)
        max == Invoke("LastVisit", <<s, n>>)
        inner == min > EnterTime(s, g) /\ max < ExitTime(s, g)
        s1 == Check(s, min > 0 /\ max > 0, "FindModules:900")
    IN IF min = max
         THEN Invoke("FindModulesVariables", <<
                Check(Check(s1, inner, "FindModules:903"),
                      Parents(s1, n) = {g}, "FindModules:904"), g, Tail(q),
                [c EXCEPT !.non_shared = Append(@, a)]>>)
         ELSE Invoke("FindModulesVariables", <<
                Check(s1, max > min, "FindModules:910"), g, Tail(q),
                [c EXCEPT !.modular = IF inner THEN Append(@, a) ELSE @,
                          !.non_modular = IF inner THEN @ ELSE Append(@, a),
                          !.min_time = IF min < @ THEN min ELSE @,
                          !.max_time = IF max > @ THEN max ELSE @]>>)

\* the end of FindModules (lines 917-932): s and c are the graph and the
\* vectors after the arguments were visited.
CompleteModule(s, g, c) ==
  LET original == /\ ~s.gates[g].module
                  /\ c.min_time = EnterTime(s, g)
                  /\ c.max_time = ExitTime(s, g)
      s1 == IF original
              THEN TurnModule(Check(s, c.non_modular = <<>>,
                                    "FindModules:923"), g)
              ELSE s
      last == Invoke("LastVisit", <<s, g>>)
      max_time == IF last > c.max_time THEN last ELSE c.max_time
  IN Invoke("ProcessModularArgs", <<
       [s1 EXCEPT !.mint = Put(@, g, c.min_time),
                  !.maxt = Put(@, g, max_time)],
       g, c.non_shared, c.modular, c.non_modular>>)

FindModulesArgs(s, g, c) ==
  LET r == Invoke("FindModulesGates", <<s, g, SortedSeq(GateArgs(s, g)), c>>)
  IN Invoke("FindModulesVariables", <<r.s, g, SortedSeq(VariableArgs(r.s, g)), r.c>>)

FindModules(s, g) ==
  IF g \in s.marks THEN s
  ELSE
    LET r == Invoke("FindModulesArgs", <<
               Mark(s, g), g,
               [non_shared |-> <<>>, modular |-> <<>>, non_modular |-> <<>>,
                min_time |-> EnterTime(s, g), max_time |-> ExitTime(s, g)]>>)
    IN Invoke("CompleteModule", <<r.s, g, r.c>>)

DetectModules(s) ==
  LET s0 == Check(s, WorklistsEmpty(s), "DetectModules:817")
      root_gate == s0.root
      s1 == Invoke("AssignTiming", <<ClearNodeVisits(s0), 0, root_gate>>).s
      s2 == Invoke("FindModules", <<ClearGateMarks(s1), root_gate>>)
  IN Check(Check(Check(s2, ~Revisited(s2, root_gate), "DetectModules:832"),
                 MinTime(s2, root_gate) = 1, "DetectModules:833"),
           Invoke("MaxTime", <<s2, root_gate>>) = ExitTime(s2, root_gate),
           "DetectModules:834")

\* ------------------------------------------------------------ common arguments
ClearNodeCounts(s) == [s EXCEPT !.pos = EmptyMap, !.neg = EmptyMap]

ClearOptiValues(s) == [s EXCEPT !.opti = EmptyMap, !.nfail = EmptyMap]

AddCount(s, a) ==
  IF a > 0 THEN [s EXCEPT !.pos = Put(@, a, Get(@, a, 0) + 1)]
  ELSE [s EXCEPT !.neg = Put(@, -a, Get(@, -a, 0) + 1)]

Count(s, a) == IF a > 0 THEN Get(s.pos, a, 0) ELSE Get(s.neg, -a, 0)

AddCounts(s, q) == IF q = <<>> THEN s ELSE Invoke("AddCounts", <<AddCount(s, Head(q)), Tail(q)>>)

MarkCommonGateArgs(s, q, op, in_group) ==
  IF q = <<>> THEN s
  ELSE LET a == Head(q)
           s0 == Check(s, s.gates[Abs(a)].state = "normal",
                       "MarkCommonArgs:1250")
           s1 == Invoke("MarkCommonArgs", <<s0, Abs(a), op>>)
       IN Invoke("MarkCommonGateArgs", <<IF in_group THEN AddCount(s1, a) ELSE s1,
                             Tail(q), op, in_group>>)

MarkCommonArgs(s, g, op) ==
  IF g \in s.marks THEN s
  ELSE LET s0 == Mark(s, g)
           in_group == s0.gates[g].type = op
           s1 == Invoke("MarkCommonGateArgs", <<s0, SortedSeq(GateArgs(s0, g)), op,
                                    in_group>>)
       IN IF ~in_group THEN s1
          ELSE Check(Invoke("AddCounts", <<s1, SortedSeq(VariableArgs(s1, g))>>),
                     ConstantArgs(s1, g) = {}, "MarkCommonArgs:1260")

\* r = [s, group]: group is the vector of <<gate, common arguments>>.
GatherCommonGateArgs(r, q, op) ==
  IF q = <<>> THEN r
  ELSE LET a == Head(q)
           r0 == [r EXCEPT !.s = Check(@, @.gates[Abs(a)].state = "normal",
                                       "GatherCommonArgs:1275")]
       IN Invoke("GatherCommonGateArgs", <<Invoke("GatherCommonArgs", <<r0, Abs(a), op>>), Tail(q), op>>)

GatherCommonArgs(r, g, op) ==
  IF g \in r.s.marks THEN r
  ELSE LET r0 == [r EXCEPT !.s = Mark(@, g)]
           in_group == r0.s.gates[g].type = op
           r1 == Invoke("GatherCommonGateArgs", <<r0, SortedSeq(GateArgs(r0.s, g)), op>>)
           s1 == r1.s
           common_args == {a \in GateArgs(s1, g) \cup VariableArgs(s1, g) :
                             Count(s1, a) > 1}
           s2 == Check(s1, ConstantArgs(s1, g) = {}, "GatherCommonArgs:1289")
       IN IF ~in_group THEN r1
          ELSE IF Cardinality(common_args) < 2 THEN [r1 EXCEPT !.s = s2]
          ELSE [s |-> s2, group |-> Append(r1.group, <<g, common_args>>)]

\* MergeTable::Collection: the common argument sets mapped to their parents.
GroupCommonParents(num_common_args, group) ==
  LET pairs == {<<i, j>> \in (1..Len(group)) \X (1..Len(group)) :
                  /\ i < j
                  /\ Cardinality(group[i][2] \cap group[j][2])
                       >= num_common_args}
      keys == {group[p[1]][2] \cap group[p[2]][2] : p \in pairs}
  IN [k \in keys |->
        UNION {{group[p[1]][1], group[p[2]][1]} :
                 p \in {x \in pairs : group[x[1]][2] \cap group[x[2]][2] = k}}]

RECURSIVE LexLess(_, _)
LexLess(a, b) ==
  IF a = <<>> THEN b # <<>>
  ELSE IF b = <<>> THEN FALSE
  ELSE IF Head(a) # Head(b) THEN Head(a) < Head(b)
  ELSE LexLess(Tail(a), Tail(b))

\* the table of options: the collection in key order, then sorted by the
\* number of common arguments in descending order.
RECURSIVE MergeTable(_)
MergeTable(parents) ==
  IF DOMAIN parents = {} THEN <<>>
  ELSE LET keys == DOMAIN parents
           Before(a, b) ==
             \/ Cardinality(a) > Cardinality(b)
             \/ /\ Cardinality(a) = Cardinality(b)
                /\ LexLess(SortedSeq(a), SortedSeq(b))
           k == CHOOSE x \in keys : \A y \in keys \ {x} : Before(x, y)
       IN <<[args |-> k, parents |-> parents[k]]>>
            \o MergeTable(Restrict(parents, keys \ {k}))

EraseFromAll(s, q, a) ==
  IF q = <<>> THEN s
  ELSE Invoke("EraseFromAll", <<
         Invoke("EraseArg", <<Check(s, a \in s.gates[Head(q)].args,
                        "MergeCommonArgs:1208"), Head(q), a>>), Tail(q), a>>)

MoveCommonArgs(s, useful_parents, merge_gate, q) ==
  IF q = <<>> THEN s
  ELSE LET parent == Head(useful_parents)
           s0 == Check(s, Head(q) \in s.gates[parent].args,
                       "MergeCommonArgs:1206")
           s1 == Invoke("ShareArg", <<s0, parent, Head(q), merge_gate>>)
       IN Invoke("MoveCommonArgs", <<Invoke("EraseFromAll", <<s1, useful_parents, Head(q)>>),
                         useful_parents, merge_gate, Tail(q)>>)

AttachMergeGate(s, q, merge_gate) ==
  IF q = <<>> THEN s
  ELSE LET p == Head(q)
           s1 == [Invoke("AddArg", <<s, p, merge_gate>>) EXCEPT !.opti = Put(@, p, 1)]
           s2 == IF Cardinality(s1.gates[p].args) = 1
                   THEN [SetType(s1, p, "null") EXCEPT !.ng = Append(@, p)]
                   ELSE s1
       IN Invoke("AttachMergeGate", <<
            Check(s2, s2.gates[p].state = "normal", "MergeCommonArgs:1218"),
            Tail(q), merge_gate>>)

\* the rewriting of the remaining options that are supersets of the merged one.
RewriteSupersets(table, common_args, merge_gate) ==
  [i \in 1..Len(table) |->
     IF /\ i < Len(table)
        /\ Cardinality(table[i].args) > Cardinality(common_args)
        /\ common_args \subseteq table[i].args
       THEN [table[i] EXCEPT
               !.args = (@ \ common_args) \cup {merge_gate}]
       ELSE table[i]]

SupersetsSequential(table, common_args, merge_gate) ==
  \A i \in 1..(Len(table) - 1) :
    (/\ Cardinality(table[i].args) > Cardinality(common_args)
     /\ common_args \subseteq table[i].args)
      => merge_gate > SetMax(table[i].args \ common_args)

\* the parents of the option that take part in the merge (lines 1176-1187).
UsefulParents(s, option) ==
  {p \in option.parents :
     Get(s.opti, p, 0) = 0 \/ option.args \subseteq s.gates[p].args}

\* one turn of "while (!table.empty())" (lines 1171-1236): r.s is the graph,
\* r.table the table it leaves.
MergeOption(s, table) ==
  LET option == table[Len(table)]
      common_args == option.args
      useful == UsefulParents(s, option)
      useful_parents == SortedSeq(useful)
      rest == SubSeq(table, 1, Len(table) - 1)
      merge_gate == s.next
      s1 == Alloc(s, s.gates[Head(useful_parents)].type)
      s2 == Invoke("MoveCommonArgs", <<s1, useful_parents, merge_gate,
                           SortedSeq(common_args)>>)
      s3 == Invoke("AttachMergeGate", <<s2, useful_parents, merge_gate>>)
      s4 == Check(s3, SupersetsSequential(table, common_args, merge_gate),
                  "MergeCommonArgs:1230")
  IN IF Cardinality(useful) < 2 THEN [s |-> s, table |-> rest]
     ELSE [s |-> Invoke("Unhold", <<s4, {merge_gate}>>),
           table |-> SubSeq(RewriteSupersets(table, common_args, merge_gate),
                            1, Len(table) - 1)]

MergeOptions(s, table) ==
  IF table = <<>> THEN s
  ELSE LET r == Invoke("MergeOption", <<s, table>>)
       IN Invoke("MergeOptions", <<r.s, r.table>>)

\* the gathering of the groups (lines 1137-1169): r.table is the sorted
\* table, r.s the graph with the gates of the groups held by the vector
\* "group", r.pinned these gates.
MergeGroups(s, op) ==
  LET s1 == Invoke("MarkCommonArgs", <<ClearGateMarks(ClearNodeCounts(s)), s.root, op>>)
      r == Invoke("GatherCommonArgs", <<[s |-> ClearGateMarks(s1), group |-> <<>>],
                            s1.root, op>>)
      parents == Invoke("GroupCommonParents", <<2, r.group>>)
      pinned == {r.group[i][1] : i \in 1..Len(r.group)} \ r.s.held
  IN IF DOMAIN parents = {}
       THEN [s |-> r.s, table |-> <<>>, pinned |-> {}]
       ELSE [s |-> ClearOptiValues([r.s EXCEPT !.held = @ \cup pinned]),
             table |-> MergeTable(parents), pinned |-> pinned]

\* MergeCommonArgs(op): r.changed is the value returned.
MergeCommonArgsOp(s, op) ==
  LET m == Invoke("MergeGroups", <<s, op>>)
      s3 == Invoke("ClearNullGates", <<Invoke("MergeOptions", <<m.s, m.table>>)>>)
  IN IF m.table = <<>> THEN [changed |-> FALSE, s |-> m.s]
     ELSE [changed |-> TRUE, s |-> Invoke("Unhold", <<s3, m.pinned>>)]

MergeCommonArgs(s) ==
  LET s0 == Check(s, WorklistsEmpty(s), "MergeCommonArgs:1116")
      a == Invoke("MergeCommonArgsOp", <<s0, "and">>)
      o == Invoke("MergeCommonArgsOp", <<a.s, "or">>)
  IN [changed |-> a.changed \/ o.changed,
      s |-> Check(o.s, WorklistsEmpty(o.s), "MergeCommonArgs:1130")]

\* ------------------------------------------------------------ distributivity
\* the options of the collection in key order, sorted by the number of
\* common arguments in ascending order.
RECURSIVE DistributiveOptions(_)
DistributiveOptions(options) ==
  IF DOMAIN options = {} THEN <<>>
  ELSE LET keys == DOMAIN options
           Before(a, b) ==
             \/ Cardinality(a) < Cardinality(b)
             \/ /\ Cardinality(a) = Cardinality(b)
                /\ LexLess(SortedSeq(a), SortedSeq(b))
           k == CHOOSE x \in keys : \A y \in keys \ {x} : Before(x, y)
       IN <<[args |-> k, parents |-> options[k]]>>
            \o DistributiveOptions(Restrict(options, keys \ {k}))

RECURSIVE OptionGroup(_, _, _)
\* the positions of the options chained in subset to superset relationship.
OptionGroup(all_options, group, j) ==
  IF j > Len(all_options) THEN group
  ELSE LET candidate == all_options[j]
           back == all_options[group[Len(group)]]
       IN IF /\ back.args \subseteq candidate.args
             /\ candidate.parents \subseteq back.parents
            THEN OptionGroup(all_options, Append(group, j), j + 1)
            ELSE OptionGroup(all_options, group, j + 1)

BestGroup(all_options) ==
  LET B[i \in 0..Len(all_options)] ==
        IF i = 0 THEN <<>>
        ELSE LET group == OptionGroup(all_options, <<i>>, i + 1)
                 best == B[i - 1]
             IN IF Len(group) > Len(best) THEN group
                ELSE IF /\ Len(group) = Len(best)
                        /\ Cardinality(all_options[group[1]].parents)
                             < Cardinality(all_options[best[1]].parents)
                  THEN group
                ELSE best
  IN B[Len(all_options)]

GroupOptions(all_options) ==
  IF all_options = <<>> THEN <<>>
  ELSE
    LET best_group == Invoke("BestGroup", <<all_options>>)
        merge_group == [k \in 1..Len(best_group) |-> all_options[best_group[k]]]
        gates == merge_group[1].parents
        cleared == [i \in 1..Len(all_options) |->
                      [all_options[i] EXCEPT
                         !.parents = IF i \in Range(best_group) THEN {}
                                     ELSE @ \ gates]]
        keep == {i \in 1..Len(cleared) : Cardinality(cleared[i].parents) >= 2}
        F[i \in 0..Len(cleared)] ==
          IF i = 0 THEN <<>>
          ELSE IF i \in keep THEN Append(F[i - 1], cleared[i]) ELSE F[i - 1]
    IN <<merge_group>> \o Invoke("GroupOptions", <<F[Len(cleared)]>>)

GroupDistributiveArgs(options) == Invoke("GroupOptions", <<DistributiveOptions(options)>>)

TransformMembers(s, gate, sub_parent, args, q) ==
  IF q = <<>> THEN s
  ELSE
    LET member == Head(q)
        s0 == Check(Check(s, Cardinality(Parents(s, member)) = 1,
                          "TransformDistributiveArgs:1521"),
                    member \in s.gates[gate].args,
                    "TransformDistributiveArgs:1522")
        s1 == Invoke("AddArg", <<[s0 EXCEPT !.gates[gate].args = @ \ {member}],
                     sub_parent, member>>)
        s2 == Collect([s1 EXCEPT !.gates[member].args = @ \ args])
        n == Cardinality(s2.gates[member].args)
        s3 == IF n = 1
                THEN [SetType(s2, member, "null") EXCEPT !.ng = Append(@, member)]
              ELSE IF n = 0
                THEN LET c == IF s2.gates[member].type = "and"
                                THEN Invoke("MakeUnity", <<s2, member>>)
                                ELSE Invoke("Nullify", <<
                                       Check(s2, s2.gates[member].type = "or",
                                             "TransformDistributiveArgs:1535"),
                                       member>>)
                     IN [c EXCEPT !.cg = Append(@, member)]
              ELSE s2
    IN Invoke("TransformMembers", <<s3, gate, sub_parent, args, Tail(q)>>)

TransformDistributiveArgs(s, gate, distr_type, group) ==
  IF group = <<>> THEN s
  ELSE
    LET args == group[1].args
        gates == group[1].parents
        reuse == Cardinality(s.gates[gate].args) = Cardinality(gates)
        t == s.gates[gate].type
        new_parent == IF reuse THEN gate ELSE s.next
        s1 == IF reuse
                THEN SetType(s, gate,
                             CASE t \in {"and", "or"} -> distr_type
                               [] t = "nand" -> "nor"
                               [] t = "nor" -> "nand"
                               [] OTHER -> t)
                ELSE Invoke("AddArg", <<Mark(Alloc(s, distr_type), s.next), gate, s.next>>)
        sub_parent == s1.next
        s2 == Invoke("AddArg", <<Mark(Alloc(s1, IF distr_type = "and" THEN "or" ELSE "and"),
                          sub_parent), new_parent, sub_parent>>)
        rep == SetMin(gates)
        s3 == Invoke("ShareArgList", <<Check(s2, args \subseteq s2.gates[rep].args,
                                 "TransformDistributiveArgs:1514"),
                           rep, SortedSeq(args), new_parent>>)
        s4 == Invoke("TransformMembers", <<[s3 EXCEPT !.held = @ \cup gates], gate,
                               sub_parent, args, SortedSeq(gates)>>)
        rest == [i \in 1..(Len(group) - 1) |->
                   [group[i + 1] EXCEPT !.args = @ \ args]]
        s5 == Invoke("TransformDistributiveArgs", <<s4, sub_parent, distr_type, rest>>)
    IN Invoke("Unhold", <<s5, ({new_parent, sub_parent} \cup gates) \ s.held>>)

\* r = [s, to_swap]: to_swap is the vector of <<member, clone>>.
CloneSharedMembers(r, q, dummy) ==
  IF q = <<>> THEN r
  ELSE LET member == Head(q)
           s0 == Check(r.s, Parents(r.s, member) # {},
                       "HandleDistributiveArgs:1386")
           clone == s0.next
       IN IF Cardinality(Parents(s0, member)) > 1
            THEN Invoke("CloneSharedMembers", <<
                   [s |-> Mark(Invoke("Clone", <<s0, member>>), clone),
                    to_swap |-> Append(r.to_swap, <<member, clone>>)],
                   Tail(q), dummy>>)
            ELSE Invoke("CloneSharedMembers", <<[r EXCEPT !.s = s0], Tail(q), dummy>>)

\* r = [s, group]
SwapMembers(r, gate, to_swap) ==
  IF to_swap = <<>> THEN r
  ELSE LET member == Head(to_swap)[1]
           clone == Head(to_swap)[2]
           s1 == Invoke("AddArg", <<Invoke("EraseArg", <<r.s, gate, member>>), gate, clone>>)
           group == [i \in 1..Len(r.group) |->
                       IF member \in r.group[i].parents
                         THEN [r.group[i] EXCEPT
                                 !.parents = (@ \ {member}) \cup {clone}]
                         ELSE r.group[i]]
       IN Invoke("SwapMembers", <<[s |-> s1, group |-> group], gate, Tail(to_swap)>>)

\* r = [s, groups]: groups collects the sanitized groups.
SanitizeGroups(r, gate, todo) ==
  IF todo = <<>> THEN r
  ELSE LET group == Head(todo)
           c == Invoke("CloneSharedMembers", <<[s |-> r.s, to_swap |-> <<>>],
                                   SortedSeq(group[1].parents), 0>>)
           w == Invoke("SwapMembers", <<[s |-> c.s, group |-> group], gate, c.to_swap>>)
       IN Invoke("SanitizeGroups", <<[s |-> w.s, groups |-> Append(r.groups, w.group)],
                         gate, Tail(todo)>>)

TransformGroups(s, gate, distr_type, groups) ==
  IF groups = <<>> THEN s
  ELSE Invoke("TransformGroups", <<
         Invoke("TransformDistributiveArgs", <<s, gate, distr_type, Head(groups)>>),
         gate, distr_type, Tail(groups)>>)

\* r.changed is the value returned.
HandleDistributiveArgs(s, gate, distr_type, candidates) ==
  LET group == [i \in 1..Len(candidates) |->
                  <<candidates[i], s.gates[candidates[i]].args>>]
      options == Invoke("GroupCommonParents", <<1, group>>)
      groups == Invoke("GroupDistributiveArgs", <<options>>)
      s0 == Check(s, groups # <<>>, "HandleDistributiveArgs:1379")
      z == Invoke("SanitizeGroups", <<[s |-> s0, groups |-> <<>>], gate, groups>>)
      clones == (DOMAIN z.s.gates \ DOMAIN s.gates) \ s.held
      s1 == Invoke("TransformGroups", <<z.s, gate, distr_type, z.groups>>)
      s2 == Check(s1, s1.gates[gate].args # {}, "HandleDistributiveArgs:1408")
  IN IF Len(candidates) < 2 \/ DOMAIN options = {}
       THEN [changed |-> FALSE, s |-> s]
       ELSE [changed |-> TRUE, s |-> Invoke("Unhold", <<s2, clones>>)]

\* r = [s, changed, candidates]
DetectDistributivityArgs(r, gate, q, possible, distr_type) ==
  IF q = <<>> THEN r
  ELSE
    LET a == Head(q)
        child_gate == Abs(a)
        d == Invoke("DetectDistributivity", <<r.s, child_gate>>)
        candidate == /\ possible
                     /\ a > 0
                     /\ d.s.gates[child_gate].state = "normal"
                     /\ ~d.s.gates[child_gate].module
                     /\ d.s.gates[child_gate].type = distr_type
    IN Invoke("DetectDistributivityArgs", <<
         [s |-> IF candidate THEN Hold(d.s, child_gate) ELSE d.s,
          changed |-> r.changed \/ d.changed,
          candidates |-> IF candidate THEN Append(r.candidates, child_gate)
                         ELSE r.candidates],
         gate, Tail(q), possible, distr_type>>)

\* r.changed is the value returned.
DetectDistributivity(s, gate) ==
  IF gate \in s.marks THEN [changed |-> FALSE, s |-> s]
  ELSE
    LET s0 == Check(Mark(s, gate), s.gates[gate].state = "normal",
                    "DetectDistributivity:1325")
        t == s0.gates[gate].type
        possible == t \in {"and", "nand", "or", "nor"}
        distr_type == IF t \in {"and", "nand"} THEN "or" ELSE "and"
        r == Invoke("DetectDistributivityArgs", <<
               [s |-> s0, changed |-> FALSE, candidates |-> <<>>], gate,
               SortedSeq(GateArgs(s0, gate)), possible, distr_type>>)
        h == Invoke("HandleDistributiveArgs", <<r.s, gate, distr_type, r.candidates>>)
    IN [changed |-> r.changed \/ h.changed,
        s |-> Invoke("Unhold", <<h.s, Range(r.candidates) \ s.held>>)]

\* ------------------------------------------------------------ Boolean optimization
Opti(s, n) == Get(s.opti, n, 0)

SetOpti(s, n, v) == [s EXCEPT !.opti = Put(@, n, v)]

\* a weak pointer to a node: variables are owned by their parents only.
NodeExpired(s, n) == IF IsVar(n) THEN Parents(s, n) = {} ELSE Expired(s, n)

\* r = [s, common_gates, common_variables]; queue is the queue of gates.
\* the loop over the gate arguments (lines 1586-1594):
\* p = [s, common, queue].
GatherGateArgs(p, q) ==
  IF q = <<>> THEN p
  ELSE
    LET n == Abs(Head(q))
        s0 == Check(p.s, p.s.gates[n].state = "normal",
                    "GatherCommonNodes:1588")
    IN Invoke("GatherGateArgs", <<
         IF Visited(s0, n) THEN [p EXCEPT !.s = s0]
         ELSE [s |-> Invoke("Visit", <<s0, n, 1>>).s,
               common |-> IF Cardinality(Parents(s0, n)) > 1
                            THEN Append(p.common, n) ELSE p.common,
               queue |-> Append(p.queue, n)],
         Tail(q)>>)

\* the loop over the variable arguments (lines 1596-1602): p = [s, common].
GatherVariableArgs(p, q) ==
  IF q = <<>> THEN p
  ELSE
    LET n == Abs(Head(q))
    IN Invoke("GatherVariableArgs", <<
         IF Visited(p.s, n) THEN p
         ELSE [s |-> Invoke("Visit", <<p.s, n, 1>>).s,
               common |-> IF Cardinality(Parents(p.s, n)) > 1
                            THEN Append(p.common, n) ELSE p.common],
         Tail(q)>>)

\* g and v are the results of the two loops for the head of the queue.
GatherRest(g, v, queue) ==
  Invoke("GatherCommonNodes", <<[s |-> v.s, common_gates |-> g.common,
                     common_variables |-> v.common],
                    Tail(queue) \o g.queue>>)

GatherVariables(g, common_variables, queue) ==
  Invoke("GatherRest", <<g,
             Invoke("GatherVariableArgs", <<
               [s |-> g.s, common |-> common_variables],
               SortedSeq(VariableArgs(g.s, Head(queue)))>>),
             queue>>)

GatherCommonNodes(r, queue) ==
  IF queue = <<>> THEN r
  ELSE Invoke("GatherVariables", <<
         Invoke("GatherGateArgs", <<
           [s |-> r.s, common |-> r.common_gates, queue |-> <<>>],
           SortedSeq(GateArgs(r.s, Head(queue)))>>),
         r.common_variables, queue>>)

\* IGate::ArgFailed: the notification of a failed argument.
ArgFailed(s, g) ==
  LET t == s.gates[g].type
      n == Get(s.nfail, g, 0) + 1
      s0 == Check(Check(s, Opti(s, g) = 0, "ArgFailed:opti"),
                  n <= Cardinality(s.gates[g].args), "ArgFailed:count")
      s1 == [s0 EXCEPT !.nfail = Put(@, g, n)]
  IN IF Opti(s, g) = 1 THEN s
     ELSE CASE t \in {"null", "or"} -> SetOpti(s1, g, 1)
            [] t = "and" -> IF n = Cardinality(s.gates[g].args)
                              THEN SetOpti(s1, g, 1) ELSE s1
            [] t = "atleast" -> IF n = s.gates[g].vote
                                  THEN SetOpti(s1, g, 1) ELSE s1
            [] OTHER -> Fail(s1, "ArgFailed:type")

\* r = [s, mult_tot]
PropagateFailureParents(r, q) ==
  IF q = <<>> THEN r
  ELSE
    LET parent == Head(q)
        s1 == Invoke("ArgFailed", <<r.s, parent>>)
        mult == Cardinality(Parents(s1, parent))
        up == Invoke("PropagateFailure", <<s1, parent>>)
    IN IF Opti(r.s, parent) = 1 THEN Invoke("PropagateFailureParents", <<r, Tail(q)>>)
       ELSE IF Opti(s1, parent) = 1
         THEN Invoke("PropagateFailureParents", <<
                [s |-> up.s,
                 mult_tot |-> r.mult_tot + (IF mult > 1 THEN mult ELSE 0)
                                + up.mult_tot], Tail(q)>>)
       ELSE Invoke("PropagateFailureParents", <<[r EXCEPT !.s = s1], Tail(q)>>)

PropagateFailure(s, node) ==
  Invoke("PropagateFailureParents", <<
    [s |-> Check(s, Opti(s, node) = 1, "PropagateFailure:1648"),
     mult_tot |-> 0], SortedSeq(Parents(s, node))>>)

\* r = [s, num_dest, destinations]
CollectFailureDestinations(r, gate, index) ==
  LET s0 == Check(r.s, Opti(r.s, gate) = 0, "CollectFailureDestinations:1669")
      s1 == SetOpti(s0, gate, IF index \in s0.gates[gate].args THEN 3 ELSE 2)
      ga == SortedSeq(GateArgs(s1, gate))
      F[i \in 0..Len(ga)] ==
        IF i = 0 THEN [r EXCEPT !.s = s1]
        ELSE LET p == F[i - 1]
                 arg == Abs(ga[i])
             IN IF Opti(p.s, arg) = 0
                  THEN Invoke("CollectFailureDestinations", <<p, arg, index>>)
                ELSE IF Opti(p.s, arg) = 1 /\ arg # index
                  THEN [p EXCEPT !.num_dest = @ + 1,
                                 !.destinations = @ \cup {arg}]
                ELSE p
  IN F[Len(ga)]

DropRedundantArg(s, node, q) ==
  IF q = <<>> THEN s
  ELSE IF Expired(s, Head(q)) THEN Invoke("DropRedundantArg", <<s, node, Tail(q)>>)
  ELSE LET parent == Head(q)
           s0 == Check(s, node \in s.gates[parent].args,
                       "ProcessRedundantParents:1713")
           s1 == Invoke("ProcessConstantArg", <<s0, parent, node, FALSE>>)
       IN Invoke("DropRedundantArg", <<Invoke("ReplaceStep", <<s1, parent>>), node, Tail(q)>>)

\* r = [s, destinations]
ProcessRedundantParents(r, node) ==
  LET s == r.s
      absorbed == {p \in Parents(s, node) :
                     /\ Opti(s, p) < 3
                     /\ s.gates[p].type = "or"
                     /\ p \in r.destinations}
      redundant_parents == {p \in Parents(s, node) : Opti(s, p) < 3} \ absorbed
  IN [s |-> Invoke("DropRedundantArg", <<s, node, SortedSeq(redundant_parents)>>),
      destinations |-> r.destinations \ absorbed]

ProcessFailureDestinations(s, node, q) ==
  IF q = <<>> THEN s
  ELSE IF Expired(s, Head(q)) THEN Invoke("ProcessFailureDestinations", <<s, node, Tail(q)>>)
  ELSE
    LET target == Head(q)
        t == s.gates[target].type
        s0 == Check(s, t # "null", "ProcessFailureDestinations:1730")
        new_gate == s0.next
        pinned == {target, new_gate} \ s0.held
        s1 == Hold(Alloc(s0, "or"), target)
        s2 == IF target = s1.root THEN Invoke("SetRoot", <<s1, new_gate>>)
              ELSE Invoke("ReplaceGate", <<s1, target, new_gate>>)
        s3 == Invoke("AddArg", <<Invoke("AddArg", <<s2, new_gate, target>>), new_gate, node>>)
    IN Invoke("ProcessFailureDestinations", <<
         CASE t = "or" -> Invoke("AddArg", <<s0, target, node>>)
           [] t \in {"and", "atleast"} -> Invoke("Unhold", <<s3, pinned>>)
           [] OTHER -> s0,
         node, Tail(q)>>)

\* c = [s, num_dest, destinations] is the result of the search for the
\* failure destinations (lines 1633-1644).
ProcessDestinations(c, node, mult_tot) ==
  LET r == Invoke("ProcessRedundantParents", <<
             [s |-> c.s, destinations |-> c.destinations], node>>)
  IN IF c.num_dest = 0 THEN c.s
     ELSE IF c.num_dest < mult_tot
       THEN Check(Invoke("ClearNullGates", <<Invoke("ClearConstGates", <<
                    Invoke("ProcessFailureDestinations", <<r.s, node,
                                               SortedSeq(r.destinations)>>)>>)>>),
                  c.destinations # {}, "ProcessCommonNode:1638")
     ELSE Check(c.s, c.destinations # {}, "ProcessCommonNode:1638")

\* f = [s, mult_tot] is the result of PropagateFailure (lines 1625-1632).
ProcessFailure(f, root, node, mult) ==
  Invoke("ProcessDestinations", <<
    IF Opti(f.s, root) = 1
      THEN [s |-> f.s, num_dest |-> 1, destinations |-> {root}]
      ELSE Invoke("CollectFailureDestinations", <<
             [s |-> f.s, num_dest |-> 0, destinations |-> {}], root, node>>),
    node, mult + f.mult_tot>>)

\* s holds the node and has its optimization values cleared
\* (lines 1620-1624).
OptimizeCommonNode(s, root, node) ==
  Invoke("ProcessFailure", <<
    Invoke("PropagateFailure", <<
      SetOpti(Check(s, Cardinality(Parents(s, node)) > 1,
                    "ProcessCommonNode:1623"), node, 1),
      node>>),
    root, node, Cardinality(Parents(s, node))>>)

ProcessCommonNode(s, node) ==
  LET s0 == Check(s, WorklistsEmpty(s), "ProcessCommonNode:1609")
      pinned == IF IsVar(node) THEN {} ELSE {node} \ s0.held
  IN IF NodeExpired(s0, node) THEN s0
     ELSE IF Cardinality(Parents(s0, node)) = 1 THEN s0
     ELSE Invoke("Unhold", <<
            Invoke("OptimizeCommonNode", <<
              ClearOptiValues([s0 EXCEPT !.held = @ \cup pinned]),
              s0.root, node>>),
            pinned>>)

ProcessCommonNodes(s, q) ==
  IF q = <<>> THEN s
  ELSE Invoke("ProcessCommonNodes", <<Invoke("ProcessCommonNode", <<s, Head(q)>>), Tail(q)>>)

BooleanOptimization(s) ==
  LET s0 == Check(s, WorklistsEmpty(s), "BooleanOptimization:1556")
      s1 == ClearGateMarks(ClearNodeVisits(s0))
      r == Invoke("GatherCommonNodes", <<
             [s |-> s1, common_gates |-> <<>>, common_variables |-> <<>>],
             <<s1.root>>>>)
  IN Invoke("ProcessCommonNodes", <<r.s, r.common_gates \o r.common_variables>>)

\* ------------------------------------------------------------ decomposition
DistributiveKind(t) == t \in {"and", "nand", "or", "nor"}

MarkAncestors(s, q, index) ==
  IF q = <<>> THEN s
  ELSE LET ancestor == Head(q)
           s1 == Invoke("Visit", <<s, ancestor, index>>).s
       IN IF Invoke("LastVisit", <<s, ancestor>>) = index THEN Invoke("MarkAncestors", <<s, Tail(q), index>>)
          ELSE IF s.gates[ancestor].module THEN Invoke("MarkAncestors", <<s1, Tail(q), index>>)
          ELSE Invoke("MarkAncestors", <<Invoke("MarkDecompositionDestinations", <<s1, ancestor, index>>),
                             Tail(q), index>>)

MarkDecompositionDestinations(s, parent, index) ==
  Invoke("MarkAncestors", <<s, SortedSeq(Parents(s, parent)), index>>)

MarkAllParents(s, q, index) ==
  IF q = <<>> THEN s
  ELSE Invoke("MarkAllParents", <<Invoke("MarkDecompositionDestinations", <<s, Head(q), index>>),
                      Tail(q), index>>)

VisitAll(s, q, index) ==
  IF q = <<>> THEN s ELSE Invoke("VisitAll", <<Invoke("Visit", <<s, Head(q), index>>).s, Tail(q), index>>)

\* r = [s, clones]: clones maps the index of a gate to its clone.
ProcessAncestorList(r, q, node, state) ==
  IF q = <<>> THEN r
  ELSE Invoke("ProcessAncestorList", <<
         Invoke("ProcessDecompositionAncestors", <<r, Head(q), node, state, FALSE>>),
         Tail(q), node, state>>)

SwapClones(s, ancestor, to_swap) ==
  IF to_swap = <<>> THEN s
  ELSE LET a == Head(to_swap)[1]
           copy == Head(to_swap)[2]
           s1 == Invoke("EraseArg", <<s, ancestor, a>>)
       IN Invoke("SwapClones", <<Invoke("AddArg", <<s1, ancestor, IF a > 0 THEN copy ELSE -copy>>),
                     ancestor, Tail(to_swap)>>)

\* the loop over the gate arguments of an ancestor (lines 1915-1942):
\* p = [s, clones, to_swap, ancestors].
CloneAncestorArgs(p, q, node) ==
  IF q = <<>> THEN p
  ELSE
    LET a == Head(q)
        gate == Abs(a)
        copy == p.s.next
    IN Invoke("CloneAncestorArgs", <<
         IF Invoke("LastVisit", <<p.s, gate>>) # node THEN p
         ELSE IF gate \in DOMAIN p.clones
           THEN [p EXCEPT !.to_swap = Append(@, <<a, p.clones[gate]>>)]
         ELSE IF Cardinality(Parents(p.s, gate)) = 1
           THEN [p EXCEPT !.s = ClearVisits(@, gate),
                          !.ancestors = Append(@, gate)]
         ELSE [s |-> Invoke("Clone", <<p.s, gate>>),
               clones |-> Put(p.clones, gate, copy),
               to_swap |-> Append(p.to_swap, <<a, copy>>),
               ancestors |-> Append(p.ancestors, copy)],
         Tail(q), node>>)

\* f is the result of the loop over the arguments.
ProcessClonedAncestors(f, ancestor, node, state) ==
  Invoke("ProcessAncestorList", <<[s |-> Invoke("SwapClones", <<f.s, ancestor, f.to_swap>>),
                       clones |-> f.clones],
                      f.ancestors, node, state>>)

ProcessAncestorArgs(s, clones, ancestor, node, state) ==
  Invoke("ProcessClonedAncestors", <<
    Invoke("CloneAncestorArgs", <<[s |-> s, clones |-> clones, to_swap |-> <<>>,
                       ancestors |-> <<>>],
                      SortedSeq(GateArgs(s, ancestor)), node>>),
    ancestor, node, state>>)

\* s is the graph after the ancestor, a parent of the node, got the
\* constant in place of the node (lines 1905-1913).
ProcessAncestorParent(s, clones, ancestor, node, state) ==
  IF s.gates[ancestor].state # "normal"
    THEN [s |-> [s EXCEPT !.cg = Append(@, ancestor)], clones |-> clones]
  ELSE IF s.gates[ancestor].type = "null"
    THEN Invoke("ProcessAncestorArgs", <<[s EXCEPT !.ng = Append(@, ancestor)], clones,
                             ancestor, node, state>>)
  ELSE Invoke("ProcessAncestorArgs", <<s, clones, ancestor, node, state>>)

ProcessDecompositionAncestors(r, ancestor, node, state, destination) ==
  IF ~destination /\ ancestor \in Parents(r.s, node)
    THEN Invoke("ProcessAncestorParent", <<
           Invoke("ProcessConstantArg", <<r.s, ancestor,
                              EdgeSign(r.s, ancestor, node) * node, state>>),
           r.clones, ancestor, node, state>>)
    ELSE Invoke("ProcessAncestorArgs", <<r.s, r.clones, ancestor, node, state>>)

\* ProcessDecompositionDestinations without the sign of the edge of the
\* destination: r = [s, clones_true, clones_false].
DecomposeDestinationsUnsigned(r, node, dest) ==
  IF dest = <<>> THEN r
  ELSE
    LET parent == Head(dest)
        t == r.s.gates[parent].type
        s0 == Check(r.s, DistributiveKind(t),
                    "ProcessDecompositionDestinations:1883")
        state == t \in {"and", "nand"}
        a == Invoke("ProcessDecompositionAncestors", <<
               [s |-> s0,
                clones |-> IF state THEN r.clones_true ELSE r.clones_false],
               parent, node, state, TRUE>>)
    IN IF Expired(r.s, parent) \/ parent \notin Parents(r.s, node)
         THEN Invoke("DecomposeDestinations", <<r, node, Tail(dest)>>)
         ELSE Invoke("DecomposeDestinations", <<
                [s |-> a.s,
                 clones_true |-> IF state THEN a.clones ELSE r.clones_true,
                 clones_false |-> IF state THEN r.clones_false ELSE a.clones],
                node, Tail(dest)>>)

\* r = [s, clones_true, clones_false]
DecomposeDestinations(r, node, dest) ==
  IF dest = <<>> THEN r
  ELSE
    LET parent == Head(dest)
        t == r.s.gates[parent].type
        s0 == Check(r.s, DistributiveKind(t),
                    "ProcessDecompositionDestinations:1883")
        positive == node \in s0.gates[parent].args
        state == (t \in {"and", "nand"}) = positive
        a == Invoke("ProcessDecompositionAncestors", <<
               [s |-> s0,
                clones |-> IF state THEN r.clones_true ELSE r.clones_false],
               parent, node, state, TRUE>>)
    IN IF Expired(r.s, parent) \/ parent \notin Parents(r.s, node)
         THEN Invoke("DecomposeDestinations", <<r, node, Tail(dest)>>)
         ELSE Invoke("DecomposeDestinations", <<
                [s |-> a.s,
                 clones_true |-> IF state THEN a.clones ELSE r.clones_true,
                 clones_false |-> IF state THEN r.clones_false ELSE a.clones],
                node, Tail(dest)>>)

ProcessDecompositionDestinations(s, node, dest) ==
  LET r == Invoke("DecomposeDestinations", <<
             [s |-> s, clones_true |-> EmptyMap, clones_false |-> EmptyMap],
             node, dest>>)
      copies == {r.clones_true[k] : k \in DOMAIN r.clones_true}
                  \cup {r.clones_false[k] : k \in DOMAIN r.clones_false}
  IN Invoke("Unhold", <<Invoke("ClearNullGates", <<Invoke("ClearConstGates", <<r.s>>)>>), copies>>)

\* r.changed is the value returned.
\* s is the graph after the ancestors of the node were marked
\* (lines 1812-1842).
DecomposeMarkedNode(s, node, parents, pinned) ==
  LET marked == {p \in parents : Invoke("LastVisit", <<s, p>>) = node}
      dest == {p \in marked : DistributiveKind(s.gates[p].type)}
      s3 == Invoke("VisitAll", <<s, SortedSeq(parents \ marked), node>>)
  IN IF dest = {} THEN [changed |-> FALSE, s |-> Invoke("Unhold", <<s3, pinned>>)]
     ELSE [changed |-> TRUE,
           s |-> Invoke("Unhold", <<Invoke("ProcessDecompositionDestinations", <<s3, node,
                                                         SortedSeq(dest)>>),
                        pinned>>)]

\* s is the graph with empty worklists.
DecomposeNode(s, node) ==
  LET parents == Parents(s, node)
      possible == \E p \in parents : DistributiveKind(s.gates[p].type)
      pinned == IF IsVar(node) THEN {} ELSE {node} \ s.held
  IN IF NodeExpired(s, node) \/ Cardinality(parents) < 2 \/ ~possible
       THEN [changed |-> FALSE, s |-> s]
     ELSE Invoke("DecomposeMarkedNode", <<
            Invoke("MarkAllParents", <<
              Check([s EXCEPT !.held = @ \cup pinned],
                    \A p \in parents : Invoke("LastVisit", <<s, p>>) # node,
                    "ProcessDecompositionCommonNode:1799"),
              SortedSeq(parents), node>>),
            node, parents, pinned>>)

ProcessDecompositionCommonNode(s, node) ==
  Invoke("DecomposeNode", <<
    Check(s, WorklistsEmpty(s), "ProcessDecompositionCommonNode:1784"), node>>)

\* r = [s, changed]
DecomposeNodes(r, q) ==
  IF q = <<>> THEN r
  ELSE LET d == Invoke("ProcessDecompositionCommonNode", <<r.s, Head(q)>>)
       IN Invoke("DecomposeNodes", <<[s |-> d.s, changed |-> r.changed \/ d.changed],
                         Tail(q)>>)

Reverse(q) == [i \in 1..Len(q) |-> q[Len(q) + 1 - i]]

\* r.changed is the value returned.
DecomposeCommonNodes(s) ==
  LET s0 == Check(s, WorklistsEmpty(s), "DecomposeCommonNodes:1751")
      r == Invoke("GatherCommonNodes", <<
             [s |-> ClearNodeVisits(s0), common_gates |-> <<>>,
              common_variables |-> <<>>], <<s0.root>>>>)
  IN Invoke("DecomposeNodes", <<[s |-> ClearNodeVisits(r.s), changed |-> FALSE],
                    Reverse(r.common_gates) \o Reverse(r.common_variables)>>)

\* PhaseTwo, lines 182-186.
ProcessDistributivity(s) ==
  Invoke("ClearNullGates", <<
    Invoke("ClearConstGates", <<Invoke("DetectDistributivity", <<ClearGateMarks(s), s.root>>).s>>)>>)

\* ------------------------------------------------------------ calls
\* A call of a procedure of the preprocessor: the arguments are evaluated
\* first and the procedure named by f is applied to them.
Invoke(f, x) ==
  CASE f = "Release" /\ Len(x) = 2 -> Release(x[1], x[2])
    [] f = "EraseAllArgs" /\ Len(x) = 2 -> EraseAllArgs(x[1], x[2])
    [] f = "Nullify" /\ Len(x) = 2 -> Nullify(x[1], x[2])
    [] f = "MakeUnity" /\ Len(x) = 2 -> MakeUnity(x[1], x[2])
    [] f = "EraseArg" /\ Len(x) = 3 -> EraseArg(x[1], x[2], x[3])
    [] f = "ProcessComplementArg" /\ Len(x) = 2 -> ProcessComplementArg(x[1], x[2])
    [] f = "AddArg" /\ Len(x) = 3 -> AddArg(x[1], x[2], x[3])
    [] f = "ShareArg" /\ Len(x) = 4 -> ShareArg(x[1], x[2], x[3], x[4])
    [] f = "TransferArg" /\ Len(x) = 4 -> TransferArg(x[1], x[2], x[3], x[4])
    [] f = "AddArgs" /\ Len(x) = 3 -> AddArgs(x[1], x[2], x[3])
    [] f = "JoinGate" /\ Len(x) = 3 -> JoinGate(x[1], x[2], x[3])
    [] f = "JoinNullGate" /\ Len(x) = 3 -> JoinNullGate(x[1], x[2], x[3])
    [] f = "Clone" /\ Len(x) = 2 -> Clone(x[1], x[2])
    [] f = "RemoveConstantArg" /\ Len(x) = 3 -> RemoveConstantArg(x[1], x[2], x[3])
    [] f = "ProcessTrueArg" /\ Len(x) = 3 -> ProcessTrueArg(x[1], x[2], x[3])
    [] f = "ProcessFalseArg" /\ Len(x) = 3 -> ProcessFalseArg(x[1], x[2], x[3])
    [] f = "ProcessConstantArg" /\ Len(x) = 4 -> ProcessConstantArg(x[1], x[2], x[3], x[4])
    [] f = "PropagateParent" /\ Len(x) = 2 -> PropagateParent(x[1], x[2])
    [] f = "PropagateConstGate" /\ Len(x) = 2 -> PropagateConstGate(x[1], x[2])
    [] f = "PropagateNullGate" /\ Len(x) = 2 -> PropagateNullGate(x[1], x[2])
    [] f = "PropagateConstant" /\ Len(x) = 2 -> PropagateConstant(x[1], x[2])
    [] f = "DrainConst" /\ Len(x) = 2 -> DrainConst(x[1], x[2])
    [] f = "ClearConstGates" /\ Len(x) = 1 -> ClearConstGates(x[1])
    [] f = "DrainNull" /\ Len(x) = 2 -> DrainNull(x[1], x[2])
    [] f = "ClearNullGates" /\ Len(x) = 1 -> ClearNullGates(x[1])
    [] f = "RemoveConstantsLoop" /\ Len(x) = 2 -> RemoveConstantsLoop(x[1], x[2])
    [] f = "RemoveConstants" /\ Len(x) = 1 -> RemoveConstants(x[1])
    [] f = "RemoveNullGates" /\ Len(x) = 1 -> RemoveNullGates(x[1])
    [] f = "Unhold" /\ Len(x) = 2 -> Unhold(x[1], x[2])
    [] f = "InvertArgList" /\ Len(x) = 3 -> InvertArgList(x[1], x[2], x[3])
    [] f = "NotifyArgs" /\ Len(x) = 3 -> NotifyArgs(x[1], x[2], x[3])
    [] f = "NotifyParentsOfNegativeGates" /\ Len(x) = 2 -> NotifyParentsOfNegativeGates(x[1], x[2])
    [] f = "NormalizeXorGate" /\ Len(x) = 2 -> NormalizeXorGate(x[1], x[2])
    [] f = "ShareArgList" /\ Len(x) = 4 -> ShareArgList(x[1], x[2], x[3], x[4])
    [] f = "NormalizeAtleastGate" /\ Len(x) = 2 -> NormalizeAtleastGate(x[1], x[2])
    [] f = "NormalizeArgs" /\ Len(x) = 3 -> NormalizeArgs(x[1], x[2], x[3])
    [] f = "NormalizeGateType" /\ Len(x) = 3 -> NormalizeGateType(x[1], x[2], x[3])
    [] f = "NormalizeGateArgs" /\ Len(x) = 3 -> NormalizeGateArgs(x[1], x[2], x[3])
    [] f = "NormalizeGate" /\ Len(x) = 3 -> NormalizeGate(x[1], x[2], x[3])
    [] f = "NormalizeGates" /\ Len(x) = 2 -> NormalizeGates(x[1], x[2])
    [] f = "SetRoot" /\ Len(x) = 2 -> SetRoot(x[1], x[2])
    [] f = "CheckRootGate" /\ Len(x) = 1 -> CheckRootGate(x[1])
    [] f = "PhaseOne" /\ Len(x) = 1 -> PhaseOne(x[1])
    [] f = "ReplaceStep" /\ Len(x) = 2 -> ReplaceStep(x[1], x[2])
    [] f = "ReplaceLoop" /\ Len(x) = 3 -> ReplaceLoop(x[1], x[2], x[3])
    [] f = "ReplaceGate" /\ Len(x) = 3 -> ReplaceGate(x[1], x[2], x[3])
    [] f = "DetectMultipleArgs" /\ Len(x) = 2 -> DetectMultipleArgs(x[1], x[2])
    [] f = "DetectMultipleDefinitions" /\ Len(x) = 2 -> DetectMultipleDefinitions(x[1], x[2])
    [] f = "ReplaceDuplicates" /\ Len(x) = 3 -> ReplaceDuplicates(x[1], x[2], x[3])
    [] f = "ReplaceDefinitions" /\ Len(x) = 3 -> ReplaceDefinitions(x[1], x[2], x[3])
    [] f = "ProcessMultipleDefinitions" /\ Len(x) = 1 -> ProcessMultipleDefinitions(x[1])
    [] f = "JoinGatesArgs" /\ Len(x) = 6 -> JoinGatesArgs(x[1], x[2], x[3], x[4], x[5], x[6])
    [] f = "JoinLoop" /\ Len(x) = 3 -> JoinLoop(x[1], x[2], x[3])
    [] f = "JoinGates" /\ Len(x) = 3 -> JoinGates(x[1], x[2], x[3])
    [] f = "CoalesceIteration" /\ Len(x) = 2 -> CoalesceIteration(x[1], x[2])
    [] f = "SwapComplements" /\ Len(x) = 4 -> SwapComplements(x[1], x[2], x[3], x[4])
    [] f = "PropagateComplementArgs" /\ Len(x) = 3 -> PropagateComplementArgs(x[1], x[2], x[3])
    [] f = "PropagateComplements" /\ Len(x) = 2 -> PropagateComplements(x[1], x[2])
    [] f = "PhaseFourComplements" /\ Len(x) = 1 -> PhaseFourComplements(x[1])
    [] f = "LastVisit" /\ Len(x) = 2 -> LastVisit(x[1], x[2])
    [] f = "Visit" /\ Len(x) = 3 -> Visit(x[1], x[2], x[3])
    [] f = "MaxTime" /\ Len(x) = 2 -> MaxTime(x[1], x[2])
    [] f = "AssignTimingGates" /\ Len(x) = 3 -> AssignTimingGates(x[1], x[2], x[3])
    [] f = "AssignTimingVariables" /\ Len(x) = 3 -> AssignTimingVariables(x[1], x[2], x[3])
    [] f = "AssignTimingArgs" /\ Len(x) = 3 -> AssignTimingArgs(x[1], x[2], x[3])
    [] f = "AssignTiming" /\ Len(x) = 3 -> AssignTiming(x[1], x[2], x[3])
    [] f = "TransferArgList" /\ Len(x) = 4 -> TransferArgList(x[1], x[2], x[3], x[4])
    [] f = "CreateNewModule" /\ Len(x) = 3 -> CreateNewModule(x[1], x[2], x[3])
    [] f = "Overlaps" /\ Len(x) = 3 -> Overlaps(x[1], x[2], x[3])
    [] f = "FilterModularArgs" /\ Len(x) = 3 -> FilterModularArgs(x[1], x[2], x[3])
    [] f = "GrowGroup" /\ Len(x) = 5 -> GrowGroup(x[1], x[2], x[3], x[4], x[5])
    [] f = "GroupModularArgs" /\ Len(x) = 2 -> GroupModularArgs(x[1], x[2])
    [] f = "CreateGroupModules" /\ Len(x) = 3 -> CreateGroupModules(x[1], x[2], x[3])
    [] f = "CreateNewModules" /\ Len(x) = 4 -> CreateNewModules(x[1], x[2], x[3], x[4])
    [] f = "ProcessModularArgs" /\ Len(x) = 5 -> ProcessModularArgs(x[1], x[2], x[3], x[4], x[5])
    [] f = "FindModulesGates" /\ Len(x) = 4 -> FindModulesGates(x[1], x[2], x[3], x[4])
    [] f = "FindModulesVariables" /\ Len(x) = 4 -> FindModulesVariables(x[1], x[2], x[3], x[4])
    [] f = "CompleteModule" /\ Len(x) = 3 -> CompleteModule(x[1], x[2], x[3])
    [] f = "FindModulesArgs" /\ Len(x) = 3 -> FindModulesArgs(x[1], x[2], x[3])
    [] f = "FindModules" /\ Len(x) = 2 -> FindModules(x[1], x[2])
    [] f = "DetectModules" /\ Len(x) = 1 -> DetectModules(x[1])
    [] f = "AddCounts" /\ Len(x) = 2 -> AddCounts(x[1], x[2])
    [] f = "MarkCommonGateArgs" /\ Len(x) = 4 -> MarkCommonGateArgs(x[1], x[2], x[3], x[4])
    [] f = "MarkCommonArgs" /\ Len(x) = 3 -> MarkCommonArgs(x[1], x[2], x[3])
    [] f = "GatherCommonGateArgs" /\ Len(x) = 3 -> GatherCommonGateArgs(x[1], x[2], x[3])
    [] f = "GatherCommonArgs" /\ Len(x) = 3 -> GatherCommonArgs(x[1], x[2], x[3])
    [] f = "GroupCommonParents" /\ Len(x) = 2 -> GroupCommonParents(x[1], x[2])
    [] f = "EraseFromAll" /\ Len(x) = 3 -> EraseFromAll(x[1], x[2], x[3])
    [] f = "MoveCommonArgs" /\ Len(x) = 4 -> MoveCommonArgs(x[1], x[2], x[3], x[4])
    [] f = "AttachMergeGate" /\ Len(x) = 3 -> AttachMergeGate(x[1], x[2], x[3])
    [] f = "MergeOptions" /\ Len(x) = 2 -> MergeOptions(x[1], x[2])
    [] f = "MergeCommonArgsOp" /\ Len(x) = 2 -> MergeCommonArgsOp(x[1], x[2])
    [] f = "MergeOption" /\ Len(x) = 2 -> MergeOption(x[1], x[2])
    [] f = "MergeGroups" /\ Len(x) = 2 -> MergeGroups(x[1], x[2])
    [] f = "MergeCommonArgs" /\ Len(x) = 1 -> MergeCommonArgs(x[1])
    [] f = "BestGroup" /\ Len(x) = 1 -> BestGroup(x[1])
    [] f = "GroupOptions" /\ Len(x) = 1 -> GroupOptions(x[1])
    [] f = "GroupDistributiveArgs" /\ Len(x) = 1 -> GroupDistributiveArgs(x[1])
    [] f = "TransformMembers" /\ Len(x) = 5 -> TransformMembers(x[1], x[2], x[3], x[4], x[5])
    [] f = "TransformDistributiveArgs" /\ Len(x) = 4 -> TransformDistributiveArgs(x[1], x[2], x[3], x[4])
    [] f = "CloneSharedMembers" /\ Len(x) = 3 -> CloneSharedMembers(x[1], x[2], x[3])
    [] f = "SwapMembers" /\ Len(x) = 3 -> SwapMembers(x[1], x[2], x[3])
    [] f = "SanitizeGroups" /\ Len(x) = 3 -> SanitizeGroups(x[1], x[2], x[3])
    [] f = "TransformGroups" /\ Len(x) = 4 -> TransformGroups(x[1], x[2], x[3], x[4])
    [] f = "HandleDistributiveArgs" /\ Len(x) = 4 -> HandleDistributiveArgs(x[1], x[2], x[3], x[4])
    [] f = "DetectDistributivityArgs" /\ Len(x) = 5 -> DetectDistributivityArgs(x[1], x[2], x[3], x[4], x[5])
    [] f = "DetectDistributivity" /\ Len(x) = 2 -> DetectDistributivity(x[1], x[2])
    [] f = "GatherGateArgs" /\ Len(x) = 2 -> GatherGateArgs(x[1], x[2])
    [] f = "GatherVariableArgs" /\ Len(x) = 2 -> GatherVariableArgs(x[1], x[2])
    [] f = "GatherRest" /\ Len(x) = 3 -> GatherRest(x[1], x[2], x[3])
    [] f = "GatherVariables" /\ Len(x) = 3 -> GatherVariables(x[1], x[2], x[3])
    [] f = "GatherCommonNodes" /\ Len(x) = 2 -> GatherCommonNodes(x[1], x[2])
    [] f = "ArgFailed" /\ Len(x) = 2 -> ArgFailed(x[1], x[2])
    [] f = "PropagateFailureParents" /\ Len(x) = 2 -> PropagateFailureParents(x[1], x[2])
    [] f = "PropagateFailure" /\ Len(x) = 2 -> PropagateFailure(x[1], x[2])
    [] f = "CollectFailureDestinations" /\ Len(x) = 3 -> CollectFailureDestinations(x[1], x[2], x[3])
    [] f = "DropRedundantArg" /\ Len(x) = 3 -> DropRedundantArg(x[1], x[2], x[3])
    [] f = "ProcessRedundantParents" /\ Len(x) = 2 -> ProcessRedundantParents(x[1], x[2])
    [] f = "ProcessFailureDestinations" /\ Len(x) = 3 -> ProcessFailureDestinations(x[1], x[2], x[3])
    [] f = "ProcessDestinations" /\ Len(x) = 3 -> ProcessDestinations(x[1], x[2], x[3])
    [] f = "ProcessFailure" /\ Len(x) = 4 -> ProcessFailure(x[1], x[2], x[3], x[4])
    [] f = "OptimizeCommonNode" /\ Len(x) = 3 -> OptimizeCommonNode(x[1], x[2], x[3])
    [] f = "ProcessCommonNode" /\ Len(x) = 2 -> ProcessCommonNode(x[1], x[2])
    [] f = "ProcessCommonNodes" /\ Len(x) = 2 -> ProcessCommonNodes(x[1], x[2])
    [] f = "BooleanOptimization" /\ Len(x) = 1 -> BooleanOptimization(x[1])
    [] f = "MarkAncestors" /\ Len(x) = 3 -> MarkAncestors(x[1], x[2], x[3])
    [] f = "MarkDecompositionDestinations" /\ Len(x) = 3 -> MarkDecompositionDestinations(x[1], x[2], x[3])
    [] f = "MarkAllParents" /\ Len(x) = 3 -> MarkAllParents(x[1], x[2], x[3])
    [] f = "VisitAll" /\ Len(x) = 3 -> VisitAll(x[1], x[2], x[3])
    [] f = "ProcessAncestorList" /\ Len(x) = 4 -> ProcessAncestorList(x[1], x[2], x[3], x[4])
    [] f = "SwapClones" /\ Len(x) = 3 -> SwapClones(x[1], x[2], x[3])
    [] f = "CloneAncestorArgs" /\ Len(x) = 3 -> CloneAncestorArgs(x[1], x[2], x[3])
    [] f = "ProcessClonedAncestors" /\ Len(x) = 4 -> ProcessClonedAncestors(x[1], x[2], x[3], x[4])
    [] f = "ProcessAncestorArgs" /\ Len(x) = 5 -> ProcessAncestorArgs(x[1], x[2], x[3], x[4], x[5])
    [] f = "ProcessAncestorParent" /\ Len(x) = 5 -> ProcessAncestorParent(x[1], x[2], x[3], x[4], x[5])
    [] f = "ProcessDecompositionAncestors" /\ Len(x) = 5 -> ProcessDecompositionAncestors(x[1], x[2], x[3], x[4], x[5])
    [] f = "DecomposeDestinations" /\ Len(x) = 3 -> DecomposeDestinations(x[1], x[2], x[3])
    [] f = "ProcessDecompositionDestinations" /\ Len(x) = 3 -> ProcessDecompositionDestinations(x[1], x[2], x[3])
    [] f = "DecomposeMarkedNode" /\ Len(x) = 4 -> DecomposeMarkedNode(x[1], x[2], x[3], x[4])
    [] f = "DecomposeNode" /\ Len(x) = 2 -> DecomposeNode(x[1], x[2])
    [] f = "ProcessDecompositionCommonNode" /\ Len(x) = 2 -> ProcessDecompositionCommonNode(x[1], x[2])
    [] f = "DecomposeNodes" /\ Len(x) = 2 -> DecomposeNodes(x[1], x[2])
    [] f = "DecomposeCommonNodes" /\ Len(x) = 1 -> DecomposeCommonNodes(x[1])
    [] f = "ProcessDistributivity" /\ Len(x) = 1 -> ProcessDistributivity(x[1])

\* ------------------------------------------------------------ the run
\* g is the Boolean graph with the preprocessor's members (root_sign,
\* const_gates, null_gates); pc is the stack of return points of
\* ProcessFaultTree and the phases it calls; input is the graph the current
\* run started from; run counts the runs; found records that a root check
\* returned true in the current run.  formula is a mef::Formula (its type_,
\* vote_number_ and num_args()), outcome what the last call on it did.
VARIABLES g, pc, input, run, found, formula, outcome

vars == <<g, pc, input, run, found, formula, outcome>>

mef == <<formula, outcome>>

prep == <<g, pc, input, run, found>>

\* the scratch of the nodes (marks, visit times, counts, optimization
\* values) is cleared by each algorithm before use: it is dropped between
\* the steps.
Scratch(s) ==
  [s EXCEPT !.marks = {}, !.visits = EmptyMap, !.mint = EmptyMap,
            !.maxt = EmptyMap, !.opti = EmptyMap, !.nfail = EmptyMap,
            !.pos = EmptyMap, !.neg = EmptyMap]

At(label) == pc # <<>> /\ Head(pc) = label

Goto(label) == <<label>> \o Tail(pc)

Call(entry, return) == <<entry, return>> \o Tail(pc)

Return == Tail(pc)

Step(s, next) ==
  /\ g' = Scratch(s)
  /\ pc' = next
  /\ UNCHANGED <<input, run, found, mef>>

\* a caller that goes on in spite of the value returned by CheckRootGate.
BranchOnward(r, taken, next) ==
  /\ g' = Scratch(r.s)
  /\ pc' = next
  /\ found' = (found \/ r.ret)
  /\ UNCHANGED <<input, run, mef>>

\* r is the result of CheckRootGate: taken is the continuation when it
\* returned true, next the continuation otherwise.
Branch(r, taken, next) ==
  /\ g' = Scratch(r.s)
  /\ pc' = IF r.ret THEN taken ELSE next
  /\ found' = (found \/ r.ret)
  /\ UNCHANGED <<input, run, mef>>

\* a step that ends with "if (CheckRootGate()) return;".
RootStep(s, taken, next) == Branch(Invoke("CheckRootGate", <<s>>), taken, next)

\* a step of a loop "while (graph_changed)", r = [changed, s], that is
\* followed by "if (CheckRootGate()) return;".
LoopStep(r, taken, next) ==
  IF r.changed THEN Step(r.s, pc) ELSE RootStep(r.s, taken, next)

\* the phases that follow Phase III in ProcessFaultTree.
AfterPhaseThree ==
  IF ~g.coherent THEN <<"PhaseFour", "CheckFour">>
  ELSE <<"PhaseFive", "Final">>

RunPhaseOne ==
  /\ At("PhaseOne")
  /\ Step(Invoke("PhaseOne", <<Check(g, Parents(g, g.root) = {}, "ProcessFaultTree:84")>>),
          Goto("CheckOne"))

CheckOne ==
  /\ At("CheckOne")
  /\ RootStep(g, <<"Done">>, <<"MultipleDefinitions", "CheckTwo">>)

CheckTwo ==
  /\ At("CheckTwo")
  /\ RootStep(g, <<"Done">>,
              IF ~g.normal THEN <<"PhaseThree", "CheckThree">>
              ELSE AfterPhaseThree)

RunPhaseThree ==
  /\ At("PhaseThree")
  /\ RootStep(Invoke("NormalizeGates", <<Check(Check(g, ~g.normal, "PhaseThree:215"),
                                   g.root_sign = 1, "PhaseThree:217"),
                             TRUE>>),
              Return, Goto("MultipleDefinitions"))

CheckThree ==
  /\ At("CheckThree")
  /\ RootStep([g EXCEPT !.normal = TRUE], <<"Done">>, AfterPhaseThree)

RunPhaseFour ==
  /\ At("PhaseFour")
  /\ RootStep(Invoke("PhaseFourComplements", <<g>>), Return, Goto("MultipleDefinitions"))

CheckFour ==
  /\ At("CheckFour")
  /\ RootStep(g, <<"Done">>, <<"PhaseFive", "Final">>)

\* PhaseTwo
MultipleDefinitions ==
  /\ At("MultipleDefinitions")
  /\ LoopStep(Invoke("ProcessMultipleDefinitions", <<g>>), Return, Goto("DetectModules"))

FirstDetectModules ==
  /\ At("DetectModules")
  /\ Step(Invoke("DetectModules", <<g>>), Goto("MergeCommonArgs"))

\* BooleanOptimization runs on a coherent graph only.
AfterMerge(s) ==
  IF g.coherent THEN Step(s, Goto("BooleanOptimization"))
  ELSE RootStep(s, Return, Goto("DecomposeCommonNodes"))

MergeArgs ==
  /\ At("MergeCommonArgs")
  /\ AfterMerge(Invoke("MergeCommonArgs", <<g>>).s)

Optimize ==
  /\ At("BooleanOptimization")
  /\ RootStep(Invoke("BooleanOptimization", <<g>>), Return, Goto("DecomposeCommonNodes"))

Decompose ==
  /\ At("DecomposeCommonNodes")
  /\ RootStep(Invoke("DecomposeCommonNodes", <<g>>).s, Return, Goto("DetectDistributivity"))

Distribute ==
  /\ At("DetectDistributivity")
  /\ Step(Invoke("ProcessDistributivity", <<g>>), Goto("JoinGates"))

Coalesce ==
  /\ At("JoinGates")
  /\ LoopStep(Invoke("CoalesceIteration", <<g, FALSE>>), Return, Goto("DetectModulesAgain"))

SecondDetectModules ==
  /\ At("DetectModulesAgain")
  /\ Step(Invoke("DetectModules", <<g>>), Return)

\* PhaseFive
RunPhaseFive ==
  /\ At("PhaseFive")
  /\ LoopStep(Invoke("CoalesceIteration", <<g, TRUE>>), Return,
              <<"MultipleDefinitions", "CheckFive">> \o Tail(pc))

CheckFive ==
  /\ At("CheckFive")
  /\ RootStep(g, Return, Goto("LayeredJoinGates"))

\* the last loop of PhaseFive, r = [changed, s].
LastLoopStep(r) == Step(r.s, IF r.changed THEN pc ELSE Return)

EndPhaseFive ==
  /\ At("LayeredJoinGates")
  /\ LastLoopStep(Invoke("CoalesceIteration", <<g, TRUE>>))

\* the end of ProcessFaultTree, r is the result of the last CheckRootGate.
Finish(r) ==
  /\ g' = Scratch(Check(Check(r.s, WorklistsEmpty(r.s),
                              "ProcessFaultTree:123"),
                        r.s.normal, "ProcessFaultTree:125"))
  /\ pc' = <<"Done">>
  /\ found' = (found \/ r.ret)
  /\ UNCHANGED <<input, run, mef>>

Final ==
  /\ At("Final")
  /\ Finish(Invoke("CheckRootGate", <<g>>))

\* a violated assertion ends the process in a build that keeps assertions.
Abort ==
  /\ g.fail # {}
  /\ pc \notin {<<"Done">>, <<"Aborted">>}
  /\ pc' = <<"Aborted">>
  /\ UNCHANGED <<g, input, run, found, mef>>

\* a second preprocessor is constructed for the graph the first run left.
MaxRuns == 2

Rerun ==
  /\ pc = <<"Done">>
  /\ run < MaxRuns
  /\ g' = [g EXCEPT !.root_sign = 1, !.fail = {}]
  /\ input' = g'
  /\ run' = run + 1
  /\ found' = FALSE
  /\ pc' = <<"PhaseOne">>
  /\ UNCHANGED mef

\* ------------------------------------------------------------ the inputs
\* The input graphs have the root gate over two more gates, the variables
\* 1..NumVars and one constant; the indices follow the variables.
ConstantNode == NumVars + 1

RootGate == NumVars + 2

FirstGate == RootGate + 1

SecondGate == RootGate + 2

RootShapes ==
  {Gt("and", {FirstGate, SecondGate}), Gt("or", {FirstGate, SecondGate}),
   Gt("and", {-FirstGate, SecondGate}), Gt("or", {FirstGate, -SecondGate}),
   Gt("nand", {FirstGate, SecondGate}), Gt("nor", {FirstGate, SecondGate}),
   Gt("xor", {FirstGate, SecondGate}),
   Gt("and", {FirstGate, SecondGate, 1}),
   Gt("or", {FirstGate, SecondGate, -NumVars}),
   Vote(2, {FirstGate, SecondGate, NumVars}),
   Gt("not", {SecondGate}), Gt("null", {SecondGate}),
   Gt("null", {-SecondGate}),
   Gt("or", {SecondGate, ConstantNode}),
   Gt("and", {SecondGate, -ConstantNode})}

FirstShapes ==
  {Gt("and", {1, 2}), Gt("or", {1, 2}), Gt("or", {-1, 2}), Gt("nand", {1, 2}),
   Gt("xor", {1, 2}), Gt("not", {1}), Gt("null", {2}),
   Gt("and", {2, ConstantNode})}

SecondShapes ==
  {Gt("and", {1, 2}), Gt("or", {1, 2}), Gt("or", {2, NumVars}),
   Gt("and", {FirstGate, NumVars}), Gt("or", {-FirstGate, 1}),
   Gt("nor", {1, NumVars}), Vote(2, {1, 2, NumVars}),
   Gt("xor", {FirstGate, NumVars})}

RECURSIVE Reachable(_, _)
Reachable(gates, seen) ==
  LET more == {Abs(a) : a \in UNION {gates[i].args : i \in seen}}
                \cap DOMAIN gates
  IN IF more \subseteq seen THEN seen ELSE Reachable(gates, seen \cup more)

InputGraph(root, first, second, value) ==
  LET all == (RootGate :> root) @@ (FirstGate :> first)
               @@ (SecondGate :> second)
      live == Reachable(all, {RootGate})
      gates == [i \in live |-> all[i]]
      used == ConstantNode \in UNION {gates[i].args : i \in live}
                \/ (-ConstantNode) \in UNION {gates[i].args : i \in live}
  IN MkGraph(gates, IF used THEN (ConstantNode :> value) ELSE EmptyMap,
             RootGate)

Init ==
  /\ \E root \in RootShapes, first \in FirstShapes, second \in SecondShapes,
        value \in BOOLEAN :
       g = InputGraph(root, first, second, value)
  /\ input = g
  /\ pc = <<"PhaseOne">>
  /\ run = 1
  /\ found = FALSE
  /\ formula = <<>>
  /\ outcome = "none"

Next ==
  \/ RunPhaseOne \/ CheckOne \/ CheckTwo \/ RunPhaseThree \/ CheckThree
  \/ RunPhaseFour \/ CheckFour \/ RunPhaseFive \/ CheckFive \/ EndPhaseFive
  \/ Final \/ MultipleDefinitions \/ FirstDetectModules \/ MergeArgs
  \/ Optimize \/ Decompose \/ Distribute \/ Coalesce \/ SecondDetectModules
  \/ Abort \/ Rerun

Spec == Init /\ [][Next]_vars

\* ------------------------------------------------------------ mef::Formula
kTwoOrMore_ == {"and", "or", "nand", "nor"}

kSingle_ == {"not", "null"}

\* the types that the assertion of Formula::Validate admits.
FormulaTypes == kTwoOrMore_ \cup kSingle_ \cup {"atleast", "xor"}

\* the largest number of arguments and the largest vote number tried.
MaxArgs == 4

MaxVote == 3

\* Formula::Formula: num_args is the size of the argument containers.
Formula(type, size) == [type_ |-> type, vote_number_ |-> 0, num_args |-> size]

\* the same chain with the last test made strict.
ValidateMsgStrict(type_, size, vote_number_) ==
  IF type_ \in kTwoOrMore_ /\ size < 2
    THEN "formula must have 2 or more arguments."
  ELSE IF type_ \in kSingle_ /\ size # 1
    THEN "formula must have only one argument."
  ELSE IF type_ = "xor" /\ size # 2
    THEN "formula must have exactly 2 arguments."
  ELSE IF type_ = "atleast" /\ size < vote_number_
    THEN "formula must have more arguments than its vote number"
  ELSE ""

\* the message that Formula::Validate builds, "" while nothing is wrong.
ValidateMsg(type_, size, vote_number_) ==
  IF type_ \in kTwoOrMore_ /\ size < 2
    THEN "formula must have 2 or more arguments."
  ELSE IF type_ \in kSingle_ /\ size # 1
    THEN "formula must have only one argument."
  ELSE IF type_ = "xor" /\ size # 2
    THEN "formula must have exactly 2 arguments."
  ELSE IF type_ = "atleast" /\ size <= vote_number_
    THEN "formula must have more arguments than its vote number"
  ELSE ""

\* Formula::Validate() const
Validate ==
  /\ outcome' = IF ValidateMsg(formula.type_, formula.num_args,
                               formula.vote_number_) # ""
                  THEN "ValidationError" ELSE "returned"
  /\ UNCHANGED <<formula, prep>>

\* int Formula::vote_number() const
GetVoteNumber ==
  /\ outcome' = IF formula.vote_number_ = 0 THEN "LogicError" ELSE "returned"
  /\ UNCHANGED <<formula, prep>>

\* void Formula::vote_number(int number)
SetVoteNumber ==
  \E number \in 0..MaxVote :
    /\ IF formula.type_ # "atleast"
         THEN outcome' = "LogicError" /\ formula' = formula
       ELSE IF number < 2
         THEN outcome' = "InvalidArgument" /\ formula' = formula
       ELSE IF formula.vote_number_ # 0
         THEN outcome' = "LogicError" /\ formula' = formula
       ELSE /\ outcome' = "returned"
            /\ formula' = [formula EXCEPT !.vote_number_ = number]
    /\ UNCHANGED prep

\* a formula of any type with any number of arguments, no preprocessor.
InitValidate ==
  /\ \E type \in FormulaTypes, size \in 0..MaxArgs :
       formula = Formula(type, size)
  /\ outcome = "none"
  /\ g = <<>>
  /\ input = <<>>
  /\ pc = <<>>
  /\ run = 0
  /\ found = FALSE

NextValidate == Validate \/ GetVoteNumber \/ SetVoteNumber

SpecValidate == InitValidate /\ [][NextValidate]_vars

\* ------------------------------------------------------------ one constant argument
\* The gates that satisfy the arity rules and hold one constant argument:
\* the constant, positive or complemented, next to literals of distinct
\* variables.
Literals == Vars \cup {-v : v \in Vars}

LiteralSets(n) ==
  {A \in SUBSET Literals :
     Cardinality(A) = n /\ \A a \in A : (-a) \notin A}

GatesOver(c) ==
  {Gt(t, A \cup {c}) : t \in {"and", "or", "nand", "nor"},
                       A \in LiteralSets(1) \cup LiteralSets(2)}
    \cup {Gt(t, {c}) : t \in {"not", "null"}}
    \cup {Gt("xor", A \cup {c}) : A \in LiteralSets(1)}
    \cup {Vote(2, A \cup {c}) : A \in LiteralSets(2) \cup LiteralSets(3)}
    \cup {Vote(3, A \cup {c}) : A \in LiteralSets(3)}

ConstantArgGates == GatesOver(ConstantNode) \cup GatesOver(-ConstantNode)

\* a graph of one gate over a constant of either value.
InitConstant ==
  /\ \E gate \in ConstantArgGates, value \in BOOLEAN :
       g = MkGraph((RootGate :> gate), (ConstantNode :> value), RootGate)
  /\ input = g
  /\ pc = <<"ConstantArg">>
  /\ run = 1
  /\ found = FALSE
  /\ formula = <<>>
  /\ outcome = "none"

\* the call of ProcessConstantArg that PropagateConstant makes for the parent.
AbsorbConstant ==
  /\ At("ConstantArg")
  /\ g' = Invoke("ProcessConstantArg", <<
            g, g.root, EdgeSign(g, g.root, ConstantNode) * ConstantNode,
            g.consts[ConstantNode]>>)
  /\ pc' = <<"Absorbed">>
  /\ UNCHANGED <<input, run, found, mef>>

NextConstant == AbsorbConstant

SpecConstant == InitConstant /\ [][NextConstant]_vars

\* ------------------------------------------------------------ normalization alone
\* NormalizeGates(false) as PhaseOne calls it on a graph that has no
\* constants and is not coherent, then CheckRootGate and NormalizeGates(true)
\* as PhaseThree calls it on a graph that is not normal.
NoConstant(shapes) ==
  {gate \in shapes : \A a \in gate.args : Abs(a) # ConstantNode}

NormalizeRoots ==
  NoConstant(RootShapes)
    \cup {Vote(2, {FirstGate, SecondGate, 1, 2}),
          Vote(3, {FirstGate, -SecondGate, 1, 2}),
          Gt("nor", {FirstGate, -SecondGate}),
          Gt("xor", {-FirstGate, SecondGate})}

\* no ATLEAST gate holds a variable twice, once directly and once through
\* a NOT or NULL gate that the removal of NULL gates replaces by it.
VoteArgsDistinct(gates) ==
  \A i \in DOMAIN gates : \A a \in gates[i].args :
    (/\ gates[i].type = "atleast"
     /\ Abs(a) \in DOMAIN gates
     /\ gates[Abs(a)].type \in {"not", "null"})
      => \A b \in gates[Abs(a)].args :
           b \notin gates[i].args /\ (-b) \notin gates[i].args

InitNormalize ==
  /\ \E root \in NormalizeRoots, first \in NoConstant(FirstShapes),
        second \in SecondShapes :
       /\ g = InputGraph(root, first, second, TRUE)
       /\ ~g.coherent
       /\ VoteArgsDistinct(g.gates)
  /\ input = g
  /\ pc = <<"Normalize">>
  /\ run = 1
  /\ found = FALSE
  /\ formula = <<>>
  /\ outcome = "none"

PartialNormalization ==
  /\ At("Normalize")
  /\ g' = Invoke("NormalizeGates", <<g, FALSE>>)
  /\ pc' = <<"Partial">>
  /\ UNCHANGED <<input, run, found, mef>>

CheckNormalized ==
  /\ At("Partial")
  /\ LET r == Invoke("CheckRootGate", <<g>>)
     IN /\ g' = r.s
        /\ pc' = IF r.ret \/ g.normal THEN <<"Done">> ELSE <<"PhaseThree">>
        /\ found' = r.ret
  /\ UNCHANGED <<input, run, mef>>

FullNormalization ==
  /\ At("PhaseThree")
  /\ g' = Invoke("NormalizeGates", <<g, TRUE>>)
  /\ pc' = <<"Full">>
  /\ UNCHANGED <<input, run, found, mef>>

NextNormalize == PartialNormalization \/ CheckNormalized \/ FullNormalization

SpecNormalize == InitNormalize /\ [][NextNormalize]_vars

\* ------------------------------------------------------------ multiple definitions alone
\* The loop of PhaseTwo over ProcessMultipleDefinitions on graphs of four
\* gates after partial normalization; gates below the root may carry the
\* module flag of an earlier DetectModules.
ThirdGate == RootGate + 3

DefinitionLeaves ==
  {Gt("and", {1, 2}), Gt("or", {1, 2}), Gt("and", {-1, 2}), Gt("xor", {1, 2}),
   Vote(2, {1, 2, NumVars})}

DefinitionRoots ==
  {Gt("and", {FirstGate, SecondGate, ThirdGate}),
   Gt("or", {FirstGate, -SecondGate, ThirdGate}),
   Gt("or", {-SecondGate, ThirdGate}),
   Gt("and", {SecondGate, ThirdGate}),
   Gt("xor", {FirstGate, ThirdGate}),
   Gt("xor", {SecondGate, ThirdGate}),
   Vote(2, {SecondGate, ThirdGate, NumVars})}

Flagged(gate, flag) == [gate EXCEPT !.module = flag]

DefinitionGraph(root, first, second, third) ==
  LET all == (RootGate :> root) @@ (FirstGate :> first)
               @@ (SecondGate :> second) @@ (ThirdGate :> third)
      live == Reachable(all, {RootGate})
  IN MkGraph([i \in live |-> all[i]], EmptyMap, RootGate)

InitDefinitions ==
  /\ \E root \in DefinitionRoots, first \in DefinitionLeaves,
        second \in DefinitionLeaves
                     \cup {Gt("and", {FirstGate, NumVars}),
                           Gt("or", {-FirstGate, NumVars})},
        third \in DefinitionLeaves
                    \cup {Gt("and", {FirstGate, NumVars}),
                          Gt("and", {SecondGate, NumVars}),
                          Gt("or", {-FirstGate, NumVars})},
        m1, m2 \in BOOLEAN :
       g = DefinitionGraph(root, Flagged(first, m1), Flagged(second, m2),
                           third)
  /\ input = g
  /\ pc = <<"MultipleDefinitions">>
  /\ run = 1
  /\ found = FALSE
  /\ formula = <<>>
  /\ outcome = "none"

\* one turn of "while (graph_changed)" (lines 149-152).
DefinitionsPass ==
  /\ At("MultipleDefinitions")
  /\ LET r == Invoke("ProcessMultipleDefinitions", <<g>>)
     IN /\ g' = r.s
        /\ pc' = IF r.changed THEN pc ELSE <<"Unique">>
  /\ UNCHANGED <<input, run, found, mef>>

NextDefinitions == DefinitionsPass

SpecDefinitions == InitDefinitions /\ [][NextDefinitions]_vars

\* ------------------------------------------------------------ common arguments alone
\* MergeCommonArgs() in the turns of its loops: the root over three gates of
\* one kind with arguments out of two variables, a complemented variable and
\* one more gate; the root may hold variables too, one of them with the other
\* sign.  pc holds the position, the operator and
\* the table of MergeCommonArgs(op).
LeafGate == RootGate + 4

MergeLeaf == Gt("xor", {1, 2})

MergePool == {1, -2, NumVars, LeafGate}

MergeArgSets == {A \in SUBSET MergePool : Cardinality(A) >= 2}

MergeRoots(t) ==
  {Gt(t, {FirstGate, SecondGate, ThirdGate}),
   Gt(Dual(t), {FirstGate, SecondGate, ThirdGate}),
   Gt(t, {FirstGate, SecondGate, ThirdGate, 1, NumVars}),
   Gt(t, {FirstGate, SecondGate, ThirdGate, 1, 2})}

MergeGraph(root, first, second, third) ==
  LET all == (RootGate :> root) @@ (FirstGate :> first)
               @@ (SecondGate :> second) @@ (ThirdGate :> third)
               @@ (LeafGate :> MergeLeaf)
      live == Reachable(all, {RootGate})
  IN MkGraph([i \in live |-> all[i]], EmptyMap, RootGate)

InitMerge ==
  /\ \E t \in {"and", "or"} :
       \E root \in MergeRoots(t), A, B, C \in MergeArgSets :
         /\ A # B /\ A # C /\ B # C
         /\ g = MergeGraph(root, Gt(t, A), Gt(t, B), Gt(t, C))
  /\ input = g
  /\ pc = <<"MergeCommonArgs", "and", <<>>>>
  /\ run = 1
  /\ found = FALSE
  /\ formula = <<>>
  /\ outcome = "none"

\* the end of MergeCommonArgs(op), the call for OR gates after the one for
\* AND gates (lines 1120-1132).
AfterMergeOf(op) ==
  IF op = "and" THEN <<"MergeCommonArgs", "or", <<>>>> ELSE <<"Merged">>

GatherGroups ==
  /\ At("MergeCommonArgs")
  /\ LET m == Invoke("MergeGroups", <<g, pc[2]>>)
     IN /\ g' = m.s
        /\ pc' = IF m.table = <<>> THEN AfterMergeOf(pc[2])
                 ELSE <<"MergeGroup", pc[2], m.table>>
  /\ UNCHANGED <<input, run, found, mef>>

MergeGroup ==
  /\ At("MergeGroup")
  /\ pc[3] # <<>>
  /\ LET r == Invoke("MergeOption", <<g, pc[3]>>)
     IN /\ g' = r.s
        /\ pc' = <<"MergeGroup", pc[2], r.table>>
  /\ UNCHANGED <<input, run, found, mef>>

FinishMerge ==
  /\ At("MergeGroup")
  /\ pc[3] = <<>>
  /\ g' = Invoke("Unhold", <<Invoke("ClearNullGates", <<g>>), g.held>>)
  /\ pc' = AfterMergeOf(pc[2])
  /\ UNCHANGED <<input, run, found, mef>>

NextMerge == GatherGroups \/ MergeGroup \/ FinishMerge

SpecMerge == InitMerge /\ [][NextMerge]_vars

\* ------------------------------------------------------------ distributivity alone
\* The distributivity step of PhaseTwo (lines 182-186) in its three calls:
\* the root over three gates of the other kind with arguments out of the
\* variables and one more gate; the root may hold a variable or one more
\* parent of the first gate too.
OtherGate == RootGate + 5

DistributePool == {1, 2, NumVars, LeafGate}

DistributeArgSets == {A \in SUBSET DistributePool : Cardinality(A) >= 2}

DistributeRoots(t) ==
  {Gt(t, {FirstGate, SecondGate, ThirdGate}),
   Gt(t, {FirstGate, SecondGate, ThirdGate, OtherGate}),
   Gt(t, {FirstGate, SecondGate, ThirdGate, NumVars})}

DistributeGraph(root, first, second, third) ==
  LET all == (RootGate :> root) @@ (FirstGate :> first)
               @@ (SecondGate :> second) @@ (ThirdGate :> third)
               @@ (LeafGate :> MergeLeaf)
               @@ (OtherGate :> Gt("xor", {FirstGate, NumVars}))
      live == Reachable(all, {RootGate})
  IN MkGraph([i \in live |-> all[i]], EmptyMap, RootGate)

InitDistribute ==
  /\ \E t \in {"and", "or"} :
       \E root \in DistributeRoots(t), A, B, C \in DistributeArgSets :
         /\ A # B /\ A # C /\ B # C
         /\ g = DistributeGraph(root, Gt(Dual(t), A), Gt(Dual(t), B),
                                Gt(Dual(t), C))
  /\ input = g
  /\ pc = <<"DetectDistributivity">>
  /\ run = 1
  /\ found = FALSE
  /\ formula = <<>>
  /\ outcome = "none"

DistributeRoot ==
  /\ At("DetectDistributivity")
  /\ g' = Invoke("DetectDistributivity", <<ClearGateMarks(g), g.root>>).s
  /\ pc' = <<"ClearConstGates">>
  /\ UNCHANGED <<input, run, found, mef>>

ClearDistributedConstants ==
  /\ At("ClearConstGates")
  /\ g' = Invoke("ClearConstGates", <<g>>)
  /\ pc' = <<"ClearNullGates">>
  /\ UNCHANGED <<input, run, found, mef>>

ClearDistributedNulls ==
  /\ At("ClearNullGates")
  /\ g' = Invoke("ClearNullGates", <<g>>)
  /\ pc' = <<"Distributed">>
  /\ UNCHANGED <<input, run, found, mef>>

NextDistribute ==
  DistributeRoot \/ ClearDistributedConstants \/ ClearDistributedNulls

SpecDistribute == InitDistribute /\ [][NextDistribute]_vars

\* ------------------------------------------------------------ coalescence alone
\* The coalescence loop of PhaseTwo and PhaseFive (lines 189-205) with the
\* traversal of JoinGates in its calls: a call for a gate whose argument
\* gates are all marked does its own joins only.  The root is over two gates
\* that may share a third one; a gate whose sub-graph is private may carry
\* the module flag.  pc holds the position and the mode of the pass.
CoalesceFirsts ==
  {Gt(t, A) : t \in {"and", "or"},
              A \in {{1, 2}, {ThirdGate, 1}, {ThirdGate, -1}}}
    \cup {Gt("xor", {ThirdGate, 1})}

CoalesceSeconds ==
  {Gt(t, A) : t \in {"and", "or"},
              A \in {{2, NumVars}, {ThirdGate, NumVars}, {-ThirdGate, 2},
                     {FirstGate, NumVars}, {-FirstGate, NumVars}}}

CoalesceThirds ==
  {Gt(t, A) : t \in {"and", "or"}, A \in {{1, 2}, {-1, NumVars}}}

CoalesceRoots ==
  {Gt(t, A) : t \in {"and", "or"},
              A \in {{FirstGate, SecondGate}, {-FirstGate, SecondGate},
                     {FirstGate, SecondGate, NumVars},
                     {FirstGate, NumVars}}}

\* the nodes below gate i are arguments of the gates below i only.
Private(all, i) ==
  LET under == Reachable(all, {i})
      nodes == {Abs(a) : a \in UNION {all[j].args : j \in under}}
  IN \A j \in DOMAIN all \ under :
       {Abs(a) : a \in all[j].args} \cap (nodes \cup under) \subseteq {i}

CoalesceGraph(root, first, second, third) ==
  LET all == (RootGate :> root) @@ (FirstGate :> first)
               @@ (SecondGate :> second) @@ (ThirdGate :> third)
      live == Reachable(all, {RootGate})
  IN MkGraph([i \in live |-> all[i]], EmptyMap, RootGate)

InitCoalesce ==
  /\ \E root \in CoalesceRoots, first \in CoalesceFirsts,
        second \in CoalesceSeconds, third \in CoalesceThirds,
        m1, m3 \in BOOLEAN :
       LET graph == CoalesceGraph(root, Flagged(first, m1), second,
                                  Flagged(third, m3))
       IN /\ m1 => Private(graph.gates, FirstGate)
          /\ m3 => /\ ThirdGate \in DOMAIN graph.gates
                   /\ Private(graph.gates, ThirdGate)
          /\ g = graph
  /\ input = g
  /\ \E common \in BOOLEAN : pc = <<"Coalesce", common>>
  /\ run = 1
  /\ found = FALSE
  /\ formula = <<>>
  /\ outcome = "none"

\* the head of a turn of the loop (lines 191-197).
StartPass ==
  /\ At("Coalesce")
  /\ g' = ClearGateMarks(Check(g, WorklistsEmpty(g), "Coalescence:192"))
  /\ pc' = IF g.gates[g.root].state = "normal" THEN <<"JoinGates", pc[2]>>
           ELSE <<"Joined", pc[2]>>
  /\ UNCHANGED <<input, run, found, mef>>

\* the gates that JoinGates has still to visit.
Unvisited == Reachable(g.gates, {g.root}) \ g.marks

\* JoinGates(gate, common) for a gate whose argument gates are visited.
JoinAt ==
  /\ At("JoinGates")
  /\ \E gate \in Unvisited :
       /\ \A a \in GateArgs(g, gate) : Abs(a) \in g.marks
       /\ g' = Invoke("JoinGates", <<g, gate, pc[2]>>)
       /\ pc' = IF gate = g.root THEN <<"Joined", pc[2]>> ELSE pc
  /\ UNCHANGED <<input, run, found, mef>>

\* the end of a turn of the loop (lines 200-204).
EndPass ==
  /\ At("Joined")
  /\ IF g.cg # <<>>
       THEN /\ g' = Invoke("ClearConstGates", <<g>>)
            /\ pc' = <<"Coalesce", pc[2]>>
       ELSE /\ g' = g
            /\ pc' = <<"Coalesced">>
  /\ UNCHANGED <<input, run, found, mef>>

NextCoalesce == StartPass \/ JoinAt \/ EndPass

SpecCoalesce == InitCoalesce /\ [][NextCoalesce]_vars

\* ------------------------------------------------------------ Boolean optimization alone
\* BooleanOptimization() in the turns of its loops over the common nodes
\* (lines 1555-1575), on coherent graphs: the root is over two or three gates
\* of the kinds AND and OR with arguments out of the variables and the third
\* gate; no two gates are the same and no two gates of one kind have two
\* arguments in common.  pc holds the position and the common nodes left.
OptimizeArgSets(pool) == {A \in SUBSET pool : Cardinality(A) >= 2}

OptimizeRoots ==
  {Gt(t, A) : t \in {"and", "or"},
              A \in {{FirstGate, SecondGate}, {FirstGate, SecondGate, NumVars},
                     {FirstGate, SecondGate, ThirdGate}, {FirstGate, 1}}}
    \cup {Vote(2, {FirstGate, SecondGate, NumVars}),
          Vote(2, {FirstGate, SecondGate, ThirdGate})}

Unmerged(a, b) ==
  /\ a # b
  /\ a.type = b.type => Cardinality(a.args \cap b.args) < 2

InitOptimize ==
  /\ \E root \in OptimizeRoots, t1, t2, t3 \in {"and", "or"},
        A \in OptimizeArgSets({1, 2, ThirdGate}),
        B \in OptimizeArgSets({2, NumVars, ThirdGate}),
        C \in OptimizeArgSets({1, 2, NumVars}) :
       /\ Unmerged(Gt(t1, A), Gt(t2, B))
       /\ Unmerged(Gt(t1, A), Gt(t3, C))
       /\ Unmerged(Gt(t2, B), Gt(t3, C))
       /\ g = CoalesceGraph(root, Gt(t1, A), Gt(t2, B), Gt(t3, C))
  /\ input = g
  /\ pc = <<"BooleanOptimization", <<>>>>
  /\ run = 1
  /\ found = FALSE
  /\ formula = <<>>
  /\ outcome = "none"

\* lines 1556-1563.
GatherNodes ==
  /\ At("BooleanOptimization")
  /\ LET s0 == Check(g, WorklistsEmpty(g), "BooleanOptimization:1556")
         r == Invoke("GatherCommonNodes", <<
                [s |-> ClearGateMarks(ClearNodeVisits(s0)),
                 common_gates |-> <<>>, common_variables |-> <<>>],
                <<s0.root>>>>)
     IN /\ g' = r.s
        /\ pc' = <<"ProcessCommonNode", r.common_gates \o r.common_variables>>
  /\ UNCHANGED <<input, run, found, mef>>

\* a turn of one of the two loops (lines 1565-1574).
OptimizeNode ==
  /\ At("ProcessCommonNode")
  /\ pc[2] # <<>>
  /\ g' = Invoke("ProcessCommonNode", <<g, Head(pc[2])>>)
  /\ pc' = <<"ProcessCommonNode", Tail(pc[2])>>
  /\ UNCHANGED <<input, run, found, mef>>

EndOptimization ==
  /\ At("ProcessCommonNode")
  /\ pc[2] = <<>>
  /\ pc' = <<"Optimized">>
  /\ UNCHANGED <<g, input, run, found, mef>>

NextOptimize == GatherNodes \/ OptimizeNode \/ EndOptimization

SpecOptimize == InitOptimize /\ [][NextOptimize]_vars

\* ------------------------------------------------------------ decomposition alone
\* DecomposeCommonNodes() in the turns of its loops over the common nodes
\* (lines 1750-1779): the root is over two gates of the kinds AND and OR
\* that may share the third gate and variables, with edges of both signs.
\* pc holds the position and the common nodes left.
DecomposeRoots ==
  {Gt(t, A) : t \in {"and", "or"},
              A \in {{FirstGate, SecondGate}, {-FirstGate, SecondGate},
                     {FirstGate, SecondGate, 1}}}

DecomposeFirsts ==
  {Gt(t, A) : t \in {"and", "or"},
              A \in {{1, ThirdGate}, {-1, ThirdGate}, {1, -ThirdGate},
                     {1, 2, ThirdGate}, {2, ThirdGate}}}

DecomposeSeconds ==
  {Gt(t, A) : t \in {"and", "or"},
              A \in {{ThirdGate, NumVars}, {-ThirdGate, NumVars},
                     {ThirdGate, 1}, {2, NumVars}, {1, NumVars}}}

DecomposeThirds ==
  {Gt(t, A) : t \in {"and", "or"},
              A \in {{1, 2}, {-1, 2}, {1, NumVars}, {-1, -NumVars},
                     {1, 2, NumVars}}}

InitDecompose ==
  /\ \E root \in DecomposeRoots, first \in DecomposeFirsts,
        second \in DecomposeSeconds, third \in DecomposeThirds :
       /\ Unmerged(first, second)
       /\ Unmerged(first, third)
       /\ Unmerged(second, third)
       /\ g = CoalesceGraph(root, first, second, third)
  /\ input = g
  /\ pc = <<"DecomposeCommonNodes", <<>>>>
  /\ run = 1
  /\ found = FALSE
  /\ formula = <<>>
  /\ outcome = "none"

\* lines 1751-1757.
GatherForDecomposition ==
  /\ At("DecomposeCommonNodes")
  /\ LET s0 == Check(g, WorklistsEmpty(g), "DecomposeCommonNodes:1751")
         r == Invoke("GatherCommonNodes", <<
                [s |-> ClearNodeVisits(s0), common_gates |-> <<>>,
                 common_variables |-> <<>>], <<s0.root>>>>)
     IN /\ g' = ClearNodeVisits(r.s)
        /\ pc' = <<"ProcessDecompositionCommonNode",
                   Reverse(r.common_gates) \o Reverse(r.common_variables)>>
  /\ UNCHANGED <<input, run, found, mef>>

\* a turn of one of the two loops (lines 1763-1777).
DecomposeTurn ==
  /\ At("ProcessDecompositionCommonNode")
  /\ pc[2] # <<>>
  /\ g' = Invoke("ProcessDecompositionCommonNode", <<g, Head(pc[2])>>).s
  /\ pc' = <<"ProcessDecompositionCommonNode", Tail(pc[2])>>
  /\ UNCHANGED <<input, run, found, mef>>

EndDecomposition ==
  /\ At("ProcessDecompositionCommonNode")
  /\ pc[2] = <<>>
  /\ pc' = <<"Decomposed">>
  /\ UNCHANGED <<g, input, run, found, mef>>

NextDecompose == GatherForDecomposition \/ DecomposeTurn \/ EndDecomposition

SpecDecompose == InitDecompose /\ [][NextDecompose]_vars

\* ------------------------------------------------------------ properties
Done == pc = <<"Done">>

Collapsed(s) == s.gates[s.root].state # "normal"

\* C1: for every assignment of the variables the graph left by
\* ProcessFaultTree evaluates to root_sign applied to the value of the graph
\* the run started from.
C1_SemanticEquivalence ==
  Done => \A asg \in Assignments :
            EvalGraph(g, asg) = IF g.root_sign = 1 THEN EvalGraph(input, asg)
                                ELSE ~EvalGraph(input, asg)

\* C2: on every return every gate is an OR, AND or NULL gate, no gate has a
\* constant argument, and the root has no parents.
C2_OutputShape ==
  Done => /\ \A i \in DOMAIN g.gates : g.gates[i].type \in {"or", "and", "null"}
          /\ \A i \in DOMAIN g.gates : ConstantArgs(g, i) = {}
          /\ Parents(g, g.root) = {}

\* C3: on every return, the early ones included, the normal flag is true.
C3_NormalOnReturn == Done => g.normal

\* C4: on every return root_sign is +1 or -1, and it is -1 only if the root
\* collapsed to a constant: a graph that is not constant has root_sign = +1.
C4_RootSign ==
  Done => /\ g.root_sign \in {1, -1}
          /\ (g.root_sign = -1 => Collapsed(g))
          /\ (~Collapsed(g) => g.root_sign = 1)

\* a run whose input has a negative root gate returns a non-constant graph.
C4_Witness ==
  /\ Done
  /\ g.fail = {}
  /\ run = 1
  /\ ~Collapsed(g)
  /\ input.gates[input.root].type \in {"nand", "nor", "not"}

RootCheck ==
  pc # <<>> /\ Head(pc) \in {"CheckOne", "CheckTwo", "CheckFour", "CheckFive",
                             "Final"}

Fold(st, sign) ==
  IF sign = -1 THEN (IF st = "null" THEN "unity" ELSE "null") ELSE st

\* C5: when the root has collapsed to a constant, the root after
\* CheckRootGate is a fresh NULL-kind gate whose state is the collapsed value,
\* complemented iff root_sign was -1, and root_sign is +1 afterwards.
C5_FreshConstantRoot ==
  [][(RootCheck /\ Collapsed(g) /\ pc' # <<"Aborted">>)
       => /\ g'.root \notin DOMAIN g.gates
          /\ g'.gates[g'.root].type = "null"
          /\ g'.gates[g'.root].state = Fold(g.gates[g.root].state, g.root_sign)
          /\ g'.root_sign = 1]_vars

\* the graph without the scratch of the traversals and the normal flag (the
\* flag is assigned by ProcessFaultTree itself, after PhaseThree).
Structure(s) ==
  <<s.gates, s.consts, s.root, s.root_sign, s.cg, s.ng, s.coherent,
    s.graph_constants, s.graph_null_gates, s.next>>

RECURSIVE Below(_, _, _)
\* the nodes that are reached from the nodes of seen without going through a
\* gate of banned.
Below(s, seen, banned) ==
  LET more == UNION {{Abs(a) : a \in s.gates[i].args} :
                       i \in (seen \cap DOMAIN s.gates) \ banned}
  IN IF more \subseteq seen THEN seen ELSE Below(s, seen \cup more, banned)

Descendants(s, m) == Below(s, {Abs(a) : a \in s.gates[m].args}, {})

Outside(s, m) == IF m = s.root THEN {} ELSE Below(s, {s.root}, {m}) \ {m}

\* C7: in the returned graph no node below a gate with the module flag is
\* reached from the root by a path that avoids the gate.
C7_ModuleProperty ==
  Done => \A m \in DOMAIN g.gates :
            g.gates[m].module => Descendants(g, m) \cap Outside(g, m) = {}

BetweenPhases ==
  pc # <<>> /\ Head(pc) \in {"CheckOne", "CheckTwo", "CheckThree", "CheckFour",
                             "Final", "Done"}

\* C8: between the phases a gate with the module flag is the root or has
\* exactly one parent.
C8_SingleParentModules ==
  BetweenPhases => \A m \in DOMAIN g.gates :
                     g.gates[m].module
                       => (m = g.root \/ Cardinality(Parents(g, m)) = 1)

\* C8 as the code has it: DetectModules does tag gates that have two or more
\* parents.  Only a flagged gate that the timing traversal did not revisit
\* is taken to have one parent, the gate that FindModules is processing, and
\* that is so: the assertions of lines 874-875 never fail.
C8_UnrevisitedModuleHasOneParent == "FindModules:874" \notin g.fail

\* DetectModules has just tagged a gate that has two parents.
C8_Witness ==
  /\ At("MergeCommonArgs")
  /\ g.fail = {}
  /\ run = 1
  /\ \E m \in DOMAIN g.gates \ {g.root} :
       g.gates[m].module /\ Cardinality(Parents(g, m)) >= 2

\* the structure of a is the structure of b up to the indices of the gates.
Isomorphic(a, b) ==
  /\ Cardinality(DOMAIN a.gates) = Cardinality(DOMAIN b.gates)
  /\ \E f \in [DOMAIN a.gates -> DOMAIN b.gates] :
       /\ \A i, j \in DOMAIN a.gates : i # j => f[i] # f[j]
       /\ f[a.root] = b.root
       /\ \A i \in DOMAIN a.gates :
            /\ b.gates[f[i]].type = a.gates[i].type
            /\ b.gates[f[i]].state = a.gates[i].state
            /\ a.gates[i].type = "atleast"
                 => b.gates[f[i]].vote = a.gates[i].vote
            /\ b.gates[f[i]].args =
                 {IF Abs(x) \in DOMAIN a.gates
                    THEN (IF x > 0 THEN f[x] ELSE -f[-x]) ELSE x :
                  x \in a.gates[i].args}

\* C9: a run of ProcessFaultTree on the graph that a run returned returns a
\* graph that is isomorphic to it.
C9_Idempotence == (Done /\ run > 1) => Isomorphic(input, g)

ArityRule(f) ==
  CASE f.type_ \in {"and", "or", "nand", "nor"} -> f.num_args >= 2
    [] f.type_ \in {"not", "null"} -> f.num_args = 1
    [] f.type_ = "xor" -> f.num_args = 2
    [] f.type_ = "atleast" -> f.num_args > f.vote_number_

\* C10: Formula::Validate throws ValidationError exactly when the formula
\* breaks the arity rule of its type; otherwise it returns; the formula is
\* the same afterwards.
C10_ValidateArity ==
  [][Validate => /\ (outcome' = "ValidationError") = ~ArityRule(formula)
                 /\ (outcome' = "returned") = ArityRule(formula)
                 /\ formula' = formula]_vars

\* an 'atleast' formula with as many arguments as its vote number is refused.
C10_Witness ==
  /\ outcome = "ValidationError"
  /\ formula.type_ = "atleast"
  /\ formula.vote_number_ >= 2
  /\ formula.num_args = formula.vote_number_

\* the gate before and after the call of ProcessConstantArg.
Absorbed == pc = <<"Absorbed">>

Before == input.gates[input.root]

After == g.gates[g.root]

TheConstant == EdgeSign(input, input.root, ConstantNode) * ConstantNode

\* the value of the constant as the gate sees it through the edge.
Adjusted == (TheConstant > 0) = input.consts[ConstantNode]

\* C12: the gate that ProcessConstantArg leaves computes, under every
\* assignment, what the gate computed with the argument standing for the
\* sign-adjusted constant; the constant is no argument of it any more.
C12_ConstantArgSemantics ==
  Absorbed => /\ \A asg \in Assignments :
                   EvalGraph(g, asg) = EvalGraph(input, asg)
              /\ After.args \subseteq Before.args \ {TheConstant}

\* ATLEAST(3; a, b, c, not TRUE) has become AND(a, b, c).
C12_Witness ==
  /\ Absorbed
  /\ Before.type = "atleast"
  /\ TheConstant < 0
  /\ input.consts[ConstantNode]
  /\ After.type = "and"
  /\ After.state = "normal"

Removed == After.state = "normal" /\ After.args = Before.args \ {TheConstant}

\* C13: the table of the spec: a TRUE argument makes NULL and OR Unity, is
\* removed from NAND and AND, makes NOR and NOT Null; a FALSE argument is
\* removed from NULL and OR, makes NAND and AND Null, NOR and NOT Unity.
C13_AbsorptionTable ==
  Absorbed =>
    IF Adjusted
      THEN /\ Before.type \in {"null", "or"} => After.state = "unity"
           /\ Before.type \in {"nand", "and"} => Removed
           /\ Before.type \in {"nor", "not"} => After.state = "null"
      ELSE /\ Before.type \in {"null", "or"} => Removed
           /\ Before.type \in {"nand", "and"} => After.state = "null"
           /\ Before.type \in {"nor", "not"} => After.state = "unity"

\* C13 as the code has it: the kinds are grouped differently for a FALSE
\* argument: it is removed from NOR, XOR and OR, makes NULL and AND Null and
\* makes NAND and NOT Unity; the TRUE column is the one of the spec.
C13_AbsorptionTableOfCode ==
  Absorbed =>
    IF Adjusted
      THEN /\ Before.type \in {"null", "or"} => After.state = "unity"
           /\ Before.type \in {"nand", "and"} => Removed
           /\ Before.type \in {"nor", "not"} => After.state = "null"
      ELSE /\ Before.type \in {"nor", "xor", "or"} => Removed
           /\ Before.type \in {"null", "and"} => After.state = "null"
           /\ Before.type \in {"nand", "not"} => After.state = "unity"

\* a NAND gate with a complemented TRUE argument has become Unity.
C13_Witness ==
  /\ Absorbed
  /\ Before.type = "nand"
  /\ TheConstant < 0
  /\ input.consts[ConstantNode]
  /\ After.state = "unity"

ArityOk(gate) ==
  LET n == Cardinality(gate.args)
  IN CASE gate.type \in {"and", "or", "nand", "nor"} -> n >= 2
       [] gate.type \in {"not", "null"} -> n = 1
       [] gate.type = "xor" -> n = 2
       [] gate.type = "atleast" -> n > gate.vote /\ gate.vote >= 2

PositiveDual(t) ==
  CASE t = "nor" -> "or" [] t = "nand" -> "and" [] t = "not" -> "null"
    [] OTHER -> t

\* the edge of the input with the sign that one flip leaves on it.
FlippedOnce(a) ==
  IF input.gates[Abs(a)].type \in {"nor", "nand"} THEN -a ELSE a

NodeValue(s, a, asg) == EvalNode(s.gates, s.consts, a, asg)

\* the gate x of s is OR(AND(a, not b), AND(not a, b)) over two gates that
\* the graph before did not have.
RewrittenXor(before, s, x, a, b) ==
  /\ x \in DOMAIN s.gates
  /\ s.gates[x].type = "or"
  /\ s.gates[x].state = "normal"
  /\ \E one, two \in DOMAIN s.gates \ DOMAIN before.gates :
       /\ one # two
       /\ s.gates[x].args = {one, two}
       /\ s.gates[one].type = "and" /\ s.gates[one].args = {a, -b}
       /\ s.gates[two].type = "and" /\ s.gates[two].args = {-a, b}
       /\ Parents(s, one) = {x} /\ Parents(s, two) = {x}

\* C16: NormalizeGates(true) leaves every XOR gate with the arguments a and
\* b, complemented or not, as an OR gate with the same index over two new
\* AND gates AND(a, not b) and AND(not a, b); the gate computes what the XOR
\* computed, and every parent that is not itself rewritten (an XOR or
\* ATLEAST gate hands its arguments over to new gates) holds it with the sign
\* it had.
C16_XorRewrite ==
  [][(At("PhaseThree") /\ pc' = <<"Full">>) =>
       \A x \in DOMAIN g.gates :
         g.gates[x].type = "xor" =>
           LET q == SortedSeq(g.gates[x].args)
           IN /\ RewrittenXor(g, g', x, q[1], q[2])
              /\ \A asg \in Assignments :
                   NodeValue(g', x, asg) = NodeValue(g, x, asg)
              /\ \A p \in Parents(g, x) :
                   g.gates[p].type \notin {"xor", "atleast"}
                     => /\ p \in DOMAIN g'.gates
                        /\ x \in g'.gates[p].args <=> x \in g.gates[p].args
                        /\ (-x) \in g'.gates[p].args
                             <=> (-x) \in g.gates[p].args]_vars

\* the root XOR(not G, H) over two gates has become an OR gate over two new
\* AND gates, one of them with G and H, the other with their complements.
C16_Witness ==
  /\ pc = <<"Full">>
  /\ input.gates[RootGate].type = "xor"
  /\ input.gates[RootGate].args = {-FirstGate, SecondGate}
  /\ input.gates[FirstGate].type = "or"
  /\ g.gates[RootGate].type = "or"
  /\ \E one, two \in DOMAIN g.gates \ DOMAIN input.gates :
       /\ g.gates[RootGate].args = {one, two}
       /\ g.gates[one].args = {-FirstGate, -SecondGate}
       /\ g.gates[two].args = {FirstGate, SecondGate}

\* the gate x of s is the expansion of ATLEAST(k; q):
\* OR(AND(q[1], ATLEAST(k-1; Tail(q))), ATLEAST(k; Tail(q))), an OR gate over
\* q for k = 1 and an AND gate over q for k = Len(q).
RECURSIVE Expansion(_, _, _, _)
Expansion(s, x, k, q) ==
  /\ x \in DOMAIN s.gates
  /\ s.gates[x].state = "normal"
  /\ IF Len(q) = k THEN s.gates[x].type = "and" /\ s.gates[x].args = Range(q)
     ELSE IF k = 1 THEN s.gates[x].type = "or" /\ s.gates[x].args = Range(q)
     ELSE /\ s.gates[x].type = "or"
          /\ \E first_arg, second_arg \in s.gates[x].args :
               /\ first_arg # second_arg
               /\ s.gates[x].args = {first_arg, second_arg}
               /\ first_arg \in DOMAIN s.gates
               /\ s.gates[first_arg].type = "and"
               /\ \E grand_arg \in s.gates[first_arg].args :
                    /\ s.gates[first_arg].args = {q[1], grand_arg}
                    /\ grand_arg # q[1]
                    /\ Expansion(s, grand_arg, k - 1, Tail(q))
               /\ Expansion(s, second_arg, k, Tail(q))

\* the number of the arguments of the gate that hold under the assignment.
TrueArgs(s, x, asg) ==
  Cardinality({a \in s.gates[x].args : NodeValue(s, a, asg)})

\* the assertions on ATLEAST gates of NormalizeGate and NormalizeAtleastGate.
AtleastAssertions ==
  {"NormalizeGate:589", "NormalizeGate:590", "NormalizeAtleastGate:624",
   "NormalizeAtleastGate:627", "NormalizeAtleastGate:628"}

\* C17: NormalizeGates(true) ends and leaves every gate ATLEAST(k; x1..xn)
\* with n > k >= 2 as the expansion
\* OR(AND(x1, ATLEAST(k-1; x2..xn)), ATLEAST(k; x2..xn)) with an OR gate for
\* k = 1 and an AND gate for k = n; the gate holds exactly when k or more of
\* the arguments it had hold; every gate of the graph is then an AND or an
\* OR gate, and every gate that was created has two arguments or more.
C17_AtleastExpansion ==
  [][(At("PhaseThree") /\ pc' = <<"Full">>) =>
       /\ g'.fail \cap AtleastAssertions = {}
       /\ \A n \in DOMAIN g'.gates :
            /\ g'.gates[n].type \in {"and", "or"}
            /\ n \notin DOMAIN g.gates => Cardinality(g'.gates[n].args) >= 2
       /\ \A x \in DOMAIN g.gates :
            (/\ g.gates[x].type = "atleast"
             /\ Cardinality(g.gates[x].args) > g.gates[x].vote
             /\ g.gates[x].vote >= 2)
              => /\ Expansion(g', x, g.gates[x].vote, SortedSeq(g.gates[x].args))
                 /\ \A asg \in Assignments :
                      NodeValue(g', x, asg)
                        = (TrueArgs(g, x, asg) >= g.gates[x].vote)]_vars

\* ATLEAST(2; a, b, c) over three variables has become
\* OR(AND(a, OR(b, c)), AND(b, c)).
C17_Witness ==
  /\ pc = <<"Full">>
  /\ SecondGate \in DOMAIN input.gates
  /\ input.gates[SecondGate] = Vote(2, {1, 2, NumVars})
  /\ g.gates[SecondGate].type = "or"
  /\ \E first_arg, grand_arg, second_arg \in DOMAIN g.gates \ DOMAIN input.gates :
       /\ g.gates[SecondGate].args = {first_arg, second_arg}
       /\ g.gates[first_arg].type = "and"
       /\ g.gates[first_arg].args = {1, grand_arg}
       /\ g.gates[grand_arg].type = "or"
       /\ g.gates[grand_arg].args = {2, NumVars}
       /\ g.gates[second_arg].type = "and"
       /\ g.gates[second_arg].args = {2, NumVars}

\* two gates with the same kind, vote number (ATLEAST) and signed arguments.
SameDefinition(s, a, b) ==
  /\ s.gates[a].type = s.gates[b].type
  /\ s.gates[a].type = "atleast" => s.gates[a].vote = s.gates[b].vote
  /\ s.gates[a].args = s.gates[b].args

\* the gates that are defined as the gate is, modules left out.
Definitions(s, a) ==
  {b \in DOMAIN s.gates : ~s.gates[b].module /\ SameDefinition(s, a, b)}

NoMultipleDefinitions(s) ==
  \A a \in DOMAIN s.gates : ~s.gates[a].module => Definitions(s, a) = {a}

\* the gates that may stand for the gate after a turn of the loop: a module
\* stands for itself, another gate for itself or for a gate defined as it is.
Replacements(x) ==
  IF g.gates[x].module THEN {x} ELSE Definitions(g, x)

\* the parent is left in the normal state by the turn and held no other
\* definition of the gate beside the gate.
Keeps(p, x) ==
  /\ p \in DOMAIN g'.gates
  /\ g'.gates[p].state = "normal"
  /\ \A y \in Replacements(x) \ {x} :
       y \notin g.gates[p].args /\ (-y) \notin g.gates[p].args

\* C18: when ProcessMultipleDefinitions returns false and the loop ends, no
\* two gates of the graph that are not modules have the same kind, vote
\* number and signed arguments.  A turn that changes the graph leaves at most
\* one of the gates that were defined alike; every parent holds, with the
\* sign of the edge it had, the gate that is left of them; a module is held
\* by its parents as before, whatever gate is defined as it is.
C18_MultipleDefinitions ==
  [][At("MultipleDefinitions") =>
       /\ pc' # pc => NoMultipleDefinitions(g')
       /\ pc' = pc =>
            /\ \A a \in DOMAIN g.gates :
                 Cardinality(Replacements(a) \cap DOMAIN g'.gates) <= 1
            /\ \A x \in DOMAIN g.gates : \A p \in Parents(g, x) :
                 Keeps(p, x) =>
                   \E o \in Replacements(x) \cap DOMAIN g'.gates :
                     (EdgeSign(g, p, x) * o) \in g'.gates[p].args]_vars

\* the loop has ended on a graph that had a module and two more gates with
\* the definition of the module: the module and one of the two are left.
C18_Witness ==
  /\ pc = <<"Unique">>
  /\ input.gates[RootGate].args = {FirstGate, SecondGate, ThirdGate}
  /\ input.gates[FirstGate].module
  /\ ~input.gates[SecondGate].module
  /\ SameDefinition(input, FirstGate, SecondGate)
  /\ SameDefinition(input, FirstGate, ThirdGate)
  /\ g.gates[RootGate].state = "normal"
  /\ FirstGate \in g.gates[RootGate].args
  /\ Cardinality(g.gates[RootGate].args) = 2

\* the option that the turn of the loop takes from the back of the table.
Option == pc[3][Len(pc[3])]

\* a turn of the loop of MergeCommonArgs(op) that merges a group.
Merges ==
  /\ At("MergeGroup")
  /\ pc[3] # <<>>
  /\ Cardinality(UsefulParents(g, Option)) >= 2

\* C19: a turn that merges a group creates a gate of the kind op with
\* exactly the common arguments of the group; every parent that takes part
\* held all of them, holds none of them afterwards and holds the new gate
\* uncomplemented; a parent that is left with this one argument is a NULL
\* gate in the worklist of NULL gates, every other parent keeps its kind; and
\* every parent that takes part computes what it computed before.
C19_MergeGroup ==
  [][Merges =>
       LET merge_gate == g.next
       IN /\ merge_gate \notin DOMAIN g.gates
          /\ merge_gate \in DOMAIN g'.gates
          /\ g'.gates[merge_gate].type = pc[2]
          /\ g'.gates[merge_gate].state = "normal"
          /\ g'.gates[merge_gate].args = Option.args
          /\ \A p \in UsefulParents(g, Option) :
               /\ Option.args \subseteq g.gates[p].args
               /\ g'.gates[p].args
                    = (g.gates[p].args \ Option.args) \cup {merge_gate}
               /\ g'.gates[p].state = "normal"
               /\ IF Cardinality(g'.gates[p].args) = 1
                    THEN g'.gates[p].type = "null" /\ p \in Range(g'.ng)
                    ELSE g'.gates[p].type = g.gates[p].type
               /\ \A asg \in Assignments :
                    NodeValue(g', p, asg) = NodeValue(g, p, asg)]_vars

\* the gates under the root that may be candidates of the rewrite.
DistributeChildren == {FirstGate, SecondGate, ThirdGate}

\* the arguments that the rewrite took from gate i.
Factored(i) == g.gates[i].args \ g'.gates[i].args

\* C20: the call of DetectDistributivity on the root leaves the function of
\* the root as it was; every argument taken from a child gate is an argument
\* of a gate of the kind of the child above it; a child left with one
\* argument is a NULL gate in the worklist of NULL gates, a child left with
\* no arguments is Unity if it was an AND gate and Null if it was an OR gate
\* and is in the worklist of constant gates; and the other parent of a child
\* and that child keep their kinds, arguments and functions.
C20_DistributivityRewrite ==
  [][At("DetectDistributivity") =>
       /\ \A asg \in Assignments :
            NodeValue(g', g'.root, asg) = NodeValue(g, g.root, asg)
       /\ \A i \in DistributeChildren :
            /\ i \in DOMAIN g'.gates
            /\ g'.gates[i].args \subseteq g.gates[i].args
            /\ \A a \in Factored(i) :
                 \E n \in DOMAIN g'.gates \ {i} :
                   /\ g'.gates[n].type = g.gates[i].type
                   /\ a \in g'.gates[n].args
                   /\ i \in Reachable(g'.gates, {n})
            /\ Factored(i) # {} =>
                 /\ Cardinality(g'.gates[i].args) = 1 =>
                      g'.gates[i].type = "null" /\ i \in Range(g'.ng)
                 /\ g'.gates[i].args = {} =>
                      /\ g'.gates[i].state =
                           IF g.gates[i].type = "and" THEN "unity" ELSE "null"
                      /\ i \in Range(g'.cg)
                 /\ Cardinality(g'.gates[i].args) > 1 =>
                      /\ g'.gates[i].type = g.gates[i].type
                      /\ g'.gates[i].state = "normal"
       /\ OtherGate \in DOMAIN g.gates =>
            /\ OtherGate \in DOMAIN g'.gates
            /\ g'.gates[OtherGate] = g.gates[OtherGate]
            /\ g'.gates[FirstGate] = g.gates[FirstGate]
            /\ \A asg \in Assignments :
                 NodeValue(g', OtherGate, asg) = NodeValue(g, OtherGate, asg)]_vars

\* the kind of argument gate that a gate of kind t takes in.
JoinTarget(t) ==
  CASE t \in {"and", "nand"} -> "and"
    [] t \in {"or", "nor"} -> "or"
    [] OTHER -> "none"

\* the argument gates that meet the conditions of a join into the gate.
Joinable(gate, common) ==
  {c \in GateArgs(g, gate) :
     /\ c > 0
     /\ ~g.gates[c].module
     /\ g.gates[c].type = JoinTarget(g.gates[gate].type)
     /\ (common \/ Cardinality(Parents(g, c)) = 1)}

\* C21: a call of JoinGates for a gate whose argument gates are visited
\* takes in only argument gates with a positive edge, without the module
\* flag, of the positive kind of the gate and, in the mode that is not
\* common, with one parent: a gate left in Normal state keeps every other
\* argument and gains only arguments of such gates, no other gate with the
\* module flag is changed or lost, and a gate that leaves Normal state had such an
\* argument gate and is in the worklist of constant gates.
C21_JoinGates ==
  [][At("JoinGates") =>
       \A gate \in g'.marks \ g.marks :
         /\ gate \in DOMAIN g'.gates
         /\ g'.gates[gate].state = "normal" =>
              /\ g.gates[gate].args \ Joinable(gate, pc[2])
                   \subseteq g'.gates[gate].args
              /\ g'.gates[gate].args \subseteq
                   g.gates[gate].args
                     \cup UNION {g.gates[c].args : c \in Joinable(gate, pc[2])}
              /\ \A m \in DOMAIN g.gates \ {gate} :
                   g.gates[m].module =>
                     m \in DOMAIN g'.gates /\ g'.gates[m] = g.gates[m]
         /\ g'.gates[gate].state # "normal" =>
              /\ Joinable(gate, pc[2]) # {}
              /\ gate \in Range(g'.cg)]_vars

\* a pass in common mode took the second gate into the root and left the
\* first gate, a module of the kind of the root, as an argument.
C21_Witness ==
  /\ At("Joined") /\ pc[2]
  /\ g.fail = {}
  /\ g.gates[g.root].state = "normal"
  /\ FirstGate \in g.gates[g.root].args
  /\ g.gates[FirstGate].module
  /\ g.gates[FirstGate].type = g.gates[g.root].type
  /\ SecondGate \in input.gates[g.root].args
  /\ SecondGate \notin DOMAIN g.gates
  /\ NumVars \in g.gates[g.root].args

\* C30: after a call of JoinGates for a gate whose argument gates are
\* visited the gate is in a constant state or has at least two arguments,
\* and the root computes what it computed before the call.
C30_CollapsedChildNotInlined ==
  [][At("JoinGates") =>
       \A gate \in g'.marks \ g.marks :
         /\ \/ g'.gates[gate].state # "normal"
            \/ Cardinality(g'.gates[gate].args) >= 2
         /\ \A asg \in Assignments :
              NodeValue(g', g'.root, asg) = NodeValue(g, g.root, asg)]_vars

\* C29: when a turn of the loop of MergeCommonArgs(op) is about to merge a
\* group, every parent taken as useful holds every common argument of the
\* group.
C29_UsefulParentsHoldArgs ==
  Merges => \A p \in UsefulParents(g, Option) :
              Option.args \subseteq g.gates[p].args

\* the graph in which ProcessCommonNode starts the propagation for the node
\* (lines 1614-1622).
Prepared(node) ==
  SetOpti(ClearOptiValues([g EXCEPT !.held =
                             @ \cup (IF IsVar(node) THEN {} ELSE {node})]),
          node, 1)

\* the result of the search for the failure destinations of the node
\* (lines 1623-1634) with the total multiplicity.
Searched(node) ==
  LET f == Invoke("PropagateFailure", <<Prepared(node), node>>)
      c == IF Opti(f.s, g.root) = 1
             THEN [s |-> f.s, num_dest |-> 1, destinations |-> {g.root}]
             ELSE Invoke("CollectFailureDestinations", <<
                    [s |-> f.s, num_dest |-> 0, destinations |-> {}],
                    g.root, node>>)
  IN [s |-> c.s, num_dest |-> c.num_dest, destinations |-> c.destinations,
      mult_tot |-> Cardinality(Parents(g, node)) + f.mult_tot]

\* the turn finds fewer destinations than the total multiplicity.
Redundancy(node) ==
  /\ ~NodeExpired(g, node)
  /\ Cardinality(Parents(g, node)) > 1
  /\ Searched(node).num_dest > 0
  /\ Searched(node).num_dest < Searched(node).mult_tot

\* the parents of the node that are not marked as direct parents that did
\* not fail, without the OR parents that are destinations.
RedundantParents(node) ==
  {p \in Parents(g, node) :
     /\ Opti(Searched(node).s, p) < 3
     /\ ~(g.gates[p].type = "or" /\ p \in Searched(node).destinations)}

\* the graph after ProcessRedundantParents and the destinations left.
Reduced(node) ==
  Invoke("ProcessRedundantParents", <<
    [s |-> Searched(node).s, destinations |-> Searched(node).destinations],
    node>>)

\* the graph after ProcessFailureDestinations.
Destined(node) ==
  Invoke("ProcessFailureDestinations", <<
    Reduced(node).s, node, SortedSeq(Reduced(node).destinations)>>)

\* C22: in a turn for a common node of a coherent graph that finds fewer
\* destinations than the total multiplicity, no redundant parent holds the
\* node after ProcessRedundantParents; after ProcessFailureDestinations
\* every OR destination holds the node and every other destination D is an
\* argument of a new gate OR(D, node) that is the root if D was the root and
\* stands for D in every parent of D; and after the turn the root computes
\* what it computed before.
C22_CommonNodeRedundancy ==
  [][At("ProcessCommonNode") /\ pc[2] # <<>> /\ Redundancy(Head(pc[2])) =>
       LET node == Head(pc[2])
           r == Reduced(node).s
           d == Destined(node)
       IN /\ \A p \in RedundantParents(node) \cap DOMAIN r.gates :
               node \notin r.gates[p].args
          /\ \A D \in Reduced(node).destinations \cap DOMAIN r.gates :
               IF r.gates[D].type = "or"
                 THEN node \in d.gates[D].args
                 ELSE \E n \in DOMAIN d.gates \ DOMAIN r.gates :
                        /\ d.gates[n].type = "or"
                        /\ d.gates[n].args = {D, node}
                        /\ D = r.root => d.root = n
                        /\ \A q \in Parents(r, D) :
                             /\ n \in d.gates[q].args
                             /\ D \notin d.gates[q].args
          /\ \A asg \in Assignments :
               NodeValue(g', g'.root, asg) = NodeValue(g, g.root, asg)]_vars

\* the destinations of the decomposition of the node: its parents of the
\* kinds AND, NAND, OR and NOR that are above another parent of the node.
DestinationsOf(node) ==
  {D \in Parents(g, node) :
     /\ DistributiveKind(g.gates[D].type)
     /\ \E q \in Parents(g, node) \ {D} : q \in Reachable(g.gates, {D})}

\* the gates below a destination of the node.
Inside(node) ==
  UNION {Reachable(g.gates, {D}) \ {D} : D \in DestinationsOf(node)}

\* the constant that stands for the node below the destination D.
Substituted(D, node) ==
  (g.gates[D].type \in {"and", "nand"}) = (node \in g.gates[D].args)

\* gate i computes in the next state what it computes now.
SameValue(i, asg) == NodeValue(g', i, asg) = NodeValue(g, i, asg)

\* the gates that are neither a destination of the node nor below one.
OutsideDestinations(node) == DOMAIN g.gates \ (Inside(node) \cup DestinationsOf(node))

\* a gate below a destination that is left computes, for the value of the
\* node that its destination fixes, what it computed before.
SubstitutedBelow(node, kept) ==
  \A i \in kept \cap Inside(node) :
    \E D \in DestinationsOf(node) :
      /\ i \in Reachable(g.gates, {D})
      /\ \A asg \in Assignments :
           NodeValue(g, node, asg) = Substituted(D, node) => SameValue(i, asg)

\* no gate below a destination that is left holds the node.
NodeRemovedBelow(node, kept) ==
  \A D \in kept \cap DestinationsOf(node) :
    \A i \in Reachable(g'.gates, {D}) \ {D} :
      g'.gates[i].args \cap {node, -node} = {}

\* the root computes what it computed before.
RootKept ==
  \A asg \in Assignments :
    NodeValue(g', g'.root, asg) = NodeValue(g, g.root, asg)

\* C23: in a turn of DecomposeCommonNodes for a common node, a gate below a
\* destination that is changed computes, for the value of the node that its
\* destination fixes (TRUE under AND and NAND, FALSE under OR and NOR, the
\* other one for a complemented edge), what it computed before; no gate
\* below a destination that is left holds the node; and every gate that has
\* a parent outside the sub-graphs of the destinations (it has more than one
\* parent whenever a destination reaches it, and is cloned), every gate that
\* is not below a destination and the root compute what they computed before.
C23_Decomposition ==
  [][At("ProcessDecompositionCommonNode") /\ pc[2] # <<>> =>
       LET node == Head(pc[2])
           kept == DOMAIN g.gates \cap DOMAIN g'.gates
       IN /\ SubstitutedBelow(node, kept)
          /\ NodeRemovedBelow(node, kept)
          /\ \A i \in kept :
               Parents(g, i) \cap OutsideDestinations(node) # {} \/ i \notin Inside(node) =>
                 \A asg \in Assignments : SameValue(i, asg)
          /\ RootKept]_vars

\* a turn replaced the third gate below the first gate by a clone and left
\* the third gate as it was for its other parent.
C23_Witness ==
  /\ At("ProcessDecompositionCommonNode")
  /\ g.fail = {}
  /\ {FirstGate, SecondGate, ThirdGate} \subseteq DOMAIN g.gates
  /\ g.gates[ThirdGate] = input.gates[ThirdGate]
  /\ ThirdGate \in g.gates[SecondGate].args
  /\ ThirdGate \in input.gates[FirstGate].args
  /\ \E c \in DOMAIN g.gates \ DOMAIN input.gates :
       /\ c \in g.gates[FirstGate].args
       /\ g.gates[c].type = g.gates[ThirdGate].type
       /\ g.gates[c].args # {}
       /\ g.gates[c].args \subseteq g.gates[ThirdGate].args
       /\ g.gates[c].args # g.gates[ThirdGate].args

\* ------------------------------------------------------------ Phase IV
\* the pairs of a gate reachable from the root and a gate that it holds
\* complemented.
NegGateArgs(s) ==
  {p \in (DOMAIN s.gates) \X (DOMAIN s.gates) :
     /\ p[1] \in Reachable(s.gates, {s.root})
     /\ (-p[2]) \in s.gates[p[1]].args}

\* lines 228-236: the graph with a negative root_sign folded into the root.
Folded(s) ==
  IF s.root_sign < 0
    THEN LET t == s.gates[s.root].type
             sb == IF t \in {"or", "and"} THEN SetType(s, s.root, Dual(t))
                   ELSE s
         IN [InvertArgs(sb, s.root) EXCEPT !.root_sign = 1]
  ELSE s

\* the value of the graph with its root_sign.
SignedValue(s, asg) ==
  IF s.root_sign = 1 THEN EvalGraph(s, asg) ELSE ~EvalGraph(s, asg)

\* gate b of s2 computes the complement of gate a of s1.
Opposite(s1, a, s2, b) ==
  \A asg \in Assignments : NodeValue(s2, b, asg) = ~NodeValue(s1, a, asg)

\* gate b of s2 computes what gate a of s1 computes.
Alike(s1, a, s2, b) ==
  \A asg \in Assignments : NodeValue(s2, b, asg) = NodeValue(s1, a, asg)

\* C24: PhaseFour meets only AND and OR gates as complemented arguments and
\* none of its assertions fails; after it root_sign is +1 and no gate
\* reachable from the root has a complemented gate argument; with a negative
\* root_sign folded into the root, every gate that is left either has its
\* kind and its function, or has the dual kind, the complement of its
\* function and its variable arguments inverted, and then it had at most one
\* parent; every new gate has the dual kind and
\* the complement of the function of a gate of the graph before; and the
\* function of the graph is the same.
C24_PropagateComplements ==
  [][RunPhaseFour =>
       LET e == Folded(g)
           kept == DOMAIN g.gates \cap DOMAIN g'.gates
       IN /\ \A p \in NegGateArgs(g) \cup NegGateArgs(e) :
               g.gates[p[2]].type \in {"and", "or"}
          /\ g'.fail \subseteq g.fail
          /\ g'.root_sign = 1
          /\ NegGateArgs(g') = {}
          /\ \A k \in kept :
               \/ /\ g'.gates[k].type = e.gates[k].type
                  /\ Alike(e, k, g', k)
               \/ /\ g'.gates[k].type = Dual(e.gates[k].type)
                  /\ Opposite(e, k, g', k)
                  /\ VariableArgs(g', k) = {-a : a \in VariableArgs(e, k)}
                  /\ Cardinality(Parents(e, k)) <= 1
          /\ \A k \in DOMAIN g'.gates \ DOMAIN g.gates :
               \E a \in DOMAIN g.gates :
                 /\ g'.gates[k].type = Dual(e.gates[a].type)
                 /\ Opposite(e, a, g', k)
          /\ \A asg \in Assignments :
               SignedValue(g', asg) = SignedValue(g, asg)]_vars

\* PhaseFour has run on a graph whose root held a gate complemented: the
\* gate has the dual kind and the complement of its function, and the root
\* holds no gate complemented any more.
C24_Witness ==
  /\ pc = <<"MultipleDefinitions", "CheckFour">>
  /\ g.fail = {}
  /\ run = 1
  /\ NegGateArgs(input) # {}
  /\ NegGateArgs(g) = {}
  /\ g.root = input.root
  /\ \E k \in (DOMAIN g.gates \cap DOMAIN input.gates) \ {g.root} :
       /\ (-k) \in input.gates[input.root].args
       /\ k \in g.gates[g.root].args
       /\ input.gates[k].type \in {"and", "or"}
       /\ g.gates[k].type = Dual(input.gates[k].type)
       /\ Opposite(input, k, g, k)

\* ------------------------------------------------------------ worklists
\* the assertions of the source on const_gates_ and null_gates_.
WorklistAssertions ==
  {"ProcessFaultTree:123", "Coalescence:192", "RemoveNullGates:325",
   "RemoveConstants:341", "RemoveConstants:349", "NormalizeGates:511",
   "NormalizeGates:530", "ProcessMultipleDefinitions:766",
   "DetectModules:817", "MergeCommonArgs:1116", "MergeCommonArgs:1130",
   "BooleanOptimization:1556", "ProcessCommonNode:1609",
   "DecomposeCommonNodes:1751", "ProcessDecompositionCommonNode:1784"}

\* C25: between the steps of ProcessFaultTree and on its return const_gates_
\* and null_gates_ are empty, and no assertion of a step on the worklists,
\* those on each common node of Boolean optimization and decomposition
\* included, has failed.
C25_WorklistsEmpty ==
  /\ WorklistsEmpty(g)
  /\ g.fail \cap WorklistAssertions = {}

\* a run has returned a graph without a NULL gate of its input, which
\* RemoveNullGates queued and ClearNullGates joined into its parent.
C25_Witness ==
  /\ Done
  /\ g.fail = {}
  /\ run = 1
  /\ \E k \in DOMAIN input.gates \ DOMAIN g.gates :
       /\ k # input.root
       /\ input.gates[k].type = "null"
       /\ \E p \in Parents(input, k) \cap DOMAIN g.gates :
            /\ k \in input.gates[p].args
            /\ input.gates[k].args \subseteq g.gates[p].args

\* ------------------------------------------------------------ propagation alone
\* PropagateConstant, PropagateConstGate and PropagateNullGate in the turns
\* of their loops: the root over two gates that hold the propagated node,
\* which is the constant, a gate that has become constant or a NULL gate over
\* a literal; the root may hold the node too.  pc holds the loop and the node.
PropagateRoots(n) ==
  {Gt(t, A) : t \in {"and", "or"},
              A \in {{FirstGate, SecondGate}, {FirstGate, -SecondGate},
                     {FirstGate, SecondGate, n},
                     {FirstGate, SecondGate, -n}}}

PropagateFirsts(n) ==
  {Gt(t, A) : t \in {"and", "or", "nand", "xor"}, A \in {{n, 1}, {-n, 2}}}
    \cup {Gt("not", {n}), Vote(2, {n, 1, 2})}

PropagateSeconds(n) ==
  {Gt(t, A) : t \in {"and", "or"}, A \in {{n, NumVars}, {-n, 1}, {n, 1, 2}}}
    \cup {Gt("null", {n})}

\* the propagated gate: a gate of state Null or Unity, or a NULL gate.
PropagatedGates(loop) ==
  IF loop = "PropagateConstGate"
    THEN {[Gt("and", {}) EXCEPT !.state = st] : st \in {"null", "unity"}}
  ELSE {Gt("null", {a}) : a \in {1, -2}}

PropagateGraph(loop, root, first, second, third, value) ==
  IF loop = "PropagateConstant"
    THEN MkGraph((RootGate :> root) @@ (FirstGate :> first)
                   @@ (SecondGate :> second),
                 (ConstantNode :> value), RootGate)
  ELSE Hold(MkGraph((RootGate :> root) @@ (FirstGate :> first)
                      @@ (SecondGate :> second) @@ (ThirdGate :> third),
                    EmptyMap, RootGate), ThirdGate)

\* the caller holds the propagated gate (ClearConstGates, ClearNullGates).
InitPropagate ==
  /\ \E loop \in {"PropagateConstant", "PropagateConstGate",
                  "PropagateNullGate"} :
       LET n == IF loop = "PropagateConstant" THEN ConstantNode
                ELSE ThirdGate
       IN /\ \E root \in PropagateRoots(n), first \in PropagateFirsts(n),
                second \in PropagateSeconds(n),
                third \in PropagatedGates(loop), value \in BOOLEAN :
               g = PropagateGraph(loop, root, first, second, third, value)
          /\ pc = <<loop, n>>
  /\ input = g
  /\ run = 1
  /\ found = FALSE
  /\ formula = <<>>
  /\ outcome = "none"

Propagating == pc # <<>> /\ Head(pc) \in {"PropagateConstant",
                                         "PropagateConstGate",
                                         "PropagateNullGate"}

\* one turn of the loop of PropagateConstant (lines 354-366); the order of
\* the parents in the unordered map is not fixed.
ConstantTurn ==
  /\ At("PropagateConstant")
  /\ \E p \in Parents(g, pc[2]) :
       g' = PropagateParent(
              Invoke("ProcessConstantArg", <<
                g, p, EdgeSign(g, p, pc[2]) * pc[2], g.consts[pc[2]]>>), p)
  /\ UNCHANGED <<pc, input, run, found, mef>>

\* one turn of the loop of PropagateConstGate (lines 459-471).
ConstGateTurn ==
  /\ At("PropagateConstGate")
  /\ \E p \in Parents(g, pc[2]) :
       g' = PropagateParent(
              Invoke("ProcessConstantArg", <<
                g, p, EdgeSign(g, p, pc[2]) * pc[2],
                g.gates[pc[2]].state # "null">>), p)
  /\ UNCHANGED <<pc, input, run, found, mef>>

\* one turn of the loop of PropagateNullGate (lines 477-487).
NullGateTurn ==
  /\ At("PropagateNullGate")
  /\ \E p \in Parents(g, pc[2]) :
       g' = PropagateParent(
              Invoke("JoinNullGate", <<g, p, EdgeSign(g, p, pc[2]) * pc[2]>>),
              p)
  /\ UNCHANGED <<pc, input, run, found, mef>>

\* the loops end when the node has no parents.
EndPropagation ==
  /\ Propagating
  /\ Parents(g, pc[2]) = {}
  /\ pc' = <<"Propagated">>
  /\ UNCHANGED <<g, input, run, found, mef>>

NextPropagate ==
  ConstantTurn \/ ConstGateTurn \/ NullGateTurn \/ EndPropagation

SpecPropagate == InitPropagate /\ [][NextPropagate]_vars

\* ------------------------------------------------------------ termination
\* ProcessFaultTree and the propagation loops together, every step taken as
\* long as one can be taken.
InitTerminate == Init \/ InitPropagate

NextTerminate == Next \/ NextPropagate

\* the positions that no step leaves.
Halted ==
  \/ pc = <<"Aborted">>
  \/ pc = <<"Done">> /\ run >= MaxRuns
  \/ pc = <<"Propagated">> /\ g.fail = {}

\* weak fairness of NextTerminate, with the condition that enables a step
\* written out: a step is taken again and again unless the run has halted.
FairTerminate == []<>Halted \/ []<><<NextTerminate>>_vars

SpecTerminate == InitTerminate /\ [][NextTerminate]_vars /\ FairTerminate

RECURSIVE CountArgs(_, _)
CountArgs(s, S) ==
  IF S = {} THEN 0
  ELSE LET k == SetMin(S)
       IN Cardinality(s.gates[k].args) + CountArgs(s, S \ {k})

\* the number of the gates and of the parent links of a graph.
Measure(s) == Cardinality(DOMAIN s.gates) + CountArgs(s, DOMAIN s.gates)

\* r = [changed, s] is the result of one iteration of a loop
\* "while (graph_changed)": an iteration that asks for another one has
\* removed a gate or a parent link.
Decreases(r) == r.changed => Measure(r.s) < Measure(g)

\* every next iteration of the loops of PhaseTwo and PhaseFive removes a
\* gate or a parent link.
PhaseLoopsDecrease ==
  /\ At("MultipleDefinitions") =>
       Decreases(Invoke("ProcessMultipleDefinitions", <<g>>))
  /\ At("JoinGates") => Decreases(Invoke("CoalesceIteration", <<g, FALSE>>))
  /\ At("PhaseFive") \/ At("LayeredJoinGates") =>
       Decreases(Invoke("CoalesceIteration", <<g, TRUE>>))

\* the propagated node has lost a parent in the graph s.
LostParent(s) ==
  Cardinality(Parents(s, pc[2])) < Cardinality(Parents(g, pc[2]))

\* every iteration of the three propagation loops, whichever parent it
\* takes, removes a parent link of the propagated node.
PropagationDecreases ==
  /\ At("PropagateConstant") =>
       \A p \in Parents(g, pc[2]) :
         LostParent(PropagateParent(
           Invoke("ProcessConstantArg", <<
             g, p, EdgeSign(g, p, pc[2]) * pc[2], g.consts[pc[2]]>>), p))
  /\ At("PropagateConstGate") =>
       \A p \in Parents(g, pc[2]) :
         LostParent(PropagateParent(
           Invoke("ProcessConstantArg", <<
             g, p, EdgeSign(g, p, pc[2]) * pc[2],
             g.gates[pc[2]].state # "null">>), p))
  /\ At("PropagateNullGate") =>
       \A p \in Parents(g, pc[2]) :
         LostParent(PropagateParent(
           Invoke("JoinNullGate", <<g, p, EdgeSign(g, p, pc[2]) * pc[2]>>),
           p))

\* C26: every next iteration of the multiple-definition loop and of the
\* coalescence loops of PhaseTwo and PhaseFive removes a gate or a parent
\* link, every iteration of PropagateConstant, PropagateConstGate and
\* PropagateNullGate removes a parent link of the propagated node, and every
\* run of ProcessFaultTree and of a propagation loop halts.
C26_Termination ==
  /\ [](PhaseLoopsDecrease /\ PropagationDecreases)
  /\ <>[]Halted

\* a propagation loop has ended after it removed the propagated gate from
\* three parents.
C26_Witness ==
  /\ pc = <<"Propagated">>
  /\ g.fail = {}
  /\ Cardinality(Parents(input, ThirdGate)) = 3
  /\ Parents(g, ThirdGate) = {}
  /\ DOMAIN g.gates # {ThirdGate}

\* C27: whenever PhaseThree is entered root_sign is +1 (the assertion of
\* line 217), also when the root gate of the input was a NOT, NOR or NAND
\* gate.
C27_RootSignAtPhaseThree == At("PhaseThree") => g.root_sign = 1

\* C28: in every iteration of the multiple-definition loop every gate that
\* DetectMultipleDefinitions visits is in Normal state (the assertion of
\* line 799), the root after an iteration that replaced a duplicate
\* included.
C28_VisitedGatesNormal ==
  /\ "DetectMultipleDefinitions:799" \notin g.fail
  /\ At("MultipleDefinitions") => g.gates[g.root].state = "normal"
====
